---------------------------- MODULE Spec2Model ----------------------------
(***************************************************************************)
(* A model of the vessel-data ETL scripts: the header resolver, the date  *)
(* parser, the sheet -> vessel mapping, the row extractors of the three   *)
(* spreadsheet scripts (feedrate/load, TBN/Fe, ME SYS oil), their sinks,  *)
(* and the vessel-schedule poller with its document-store sink.           *)
(*                                                                         *)
(* Text is a sequence of one-character strings; a character outside ASCII *)
(* is written as a name in angle brackets ("<nbsp>", "<e-acute>").  Every   *)
(* other Python value is a tag followed by its text: None is <<"<None>">>, *)
(* the int 12 is <<"<int>", "1", "2">>, the float 12.5 is                  *)
(* <<"<float>", "1", "2", ".", "5">>, and a datetime is "<datetime>"       *)
(* followed by its date as YYYY-MM-DD.                                     *)
(***************************************************************************)
EXTENDS Integers, Sequences, FiniteSets, TLC

None == <<"<None>">>

Min(x, y) == IF x <= y THEN x ELSE y
Max(x, y) == IF x >= y THEN x ELSE y

RECURSIVE Flatten(_)
Flatten(ss) == IF ss = <<>> THEN <<>> ELSE Head(ss) \o Flatten(Tail(ss))

Range(f) == {f[i] : i \in DOMAIN f}

(***************************************************************************)
(* Characters                                                              *)
(***************************************************************************)
UpperChars == <<"A","B","C","D","E","F","G","H","I","J","K","L","M",
                "N","O","P","Q","R","S","T","U","V","W","X","Y","Z">>
LowerChars == <<"a","b","c","d","e","f","g","h","i","j","k","l","m",
                "n","o","p","q","r","s","t","u","v","w","x","y","z">>
DigitChars == <<"0","1","2","3","4","5","6","7","8","9">>

\* ASCII whitespace, and the no-break space that str.strip and \s also take.
AsciiSpaceChars == {" ", "\t", "\n"}
SpaceChars == AsciiSpaceChars \cup {"<nbsp>"}

AsciiPunctChars == {"/", "-", ".", "@", ">", "[", "]", "%", "+", ":", ","}

AsciiChars == Range(UpperChars) \cup Range(LowerChars) \cup Range(DigitChars)
                \cup AsciiSpaceChars \cup AsciiPunctChars \cup {"_"}

IsDigit(c) == c \in Range(DigitChars)
IsSpace(c) == c \in SpaceChars
\* \w of a str pattern, on the ASCII text left after the encode step
IsWord(c) == c \in Range(UpperChars) \cup Range(LowerChars) \cup Range(DigitChars) \cup {"_"}

\* str.lower() of one character
LowerChar(c) ==
    IF c \in Range(UpperChars)
    THEN LowerChars[CHOOSE i \in DOMAIN UpperChars : UpperChars[i] = c]
    ELSE IF c = "<E-acute>" THEN "<e-acute>" ELSE c

\* unicodedata.normalize('NFKD', c) of one character
NfkdChar(c) ==
    CASE c = "<e-acute>" -> <<"e", "<combining-acute>">>
      [] c = "<E-acute>" -> <<"E", "<combining-acute>">>
      [] c = "<nbsp>"    -> <<" ">>
      [] c = "<micro>"   -> <<"<mu>">>
      [] c = "<tm>"      -> <<"T", "M">>
      [] OTHER           -> <<c>>

(***************************************************************************)
(* Text helpers                                                            *)
(***************************************************************************)
RECURSIVE LStrip(_)
LStrip(s) == IF s # <<>> /\ IsSpace(Head(s)) THEN LStrip(Tail(s)) ELSE s

RECURSIVE RStrip(_)
RStrip(s) == IF s # <<>> /\ IsSpace(s[Len(s)]) THEN RStrip(SubSeq(s, 1, Len(s) - 1)) ELSE s

\* str.strip()
Strip(s) == RStrip(LStrip(s))

\* str.lower()
Lower(s) == [i \in DOMAIN s |-> LowerChar(s[i])]

\* unicodedata.normalize('NFKD', s).encode('ascii', 'ignore').decode('utf-8', 'ignore')
AsciiFold(s) == SelectSeq(Flatten([i \in DOMAIN s |-> NfkdChar(s[i])]), LAMBDA c : c \in AsciiChars)

\* re.sub(r'[^\w\s]', ' ', s)
PunctToSpace(s) == [i \in DOMAIN s |-> IF IsWord(s[i]) \/ IsSpace(s[i]) THEN s[i] ELSE " "]

\* re.sub(r'\s+', ' ', s)
RECURSIVE CollapseSpace(_)
CollapseSpace(s) ==
    IF s = <<>> THEN <<>>
    ELSE IF IsSpace(Head(s))
         THEN <<" ">> \o CollapseSpace(LStrip(s))
         ELSE <<Head(s)>> \o CollapseSpace(Tail(s))

normalize_string(s) == Strip(CollapseSpace(PunctToSpace(AsciiFold(Strip(Lower(s))))))

(***************************************************************************)
(* difflib.SequenceMatcher(None, a, b).ratio() for texts shorter than 200  *)
(* characters (no junk, no popular-element pruning).  Indices are Python's *)
(* 0-based half-open ranges.                                               *)
(***************************************************************************)
BlockAt(a, b, i, j, k) == \A d \in 0..(k - 1) : a[i + 1 + d] = b[j + 1 + d]

\* The longest block of a[alo:ahi] and b[blo:bhi]; of the longest, the one
\* that starts earliest in a, and of those, earliest in b.
find_longest_match(a, b, alo, ahi, blo, bhi) ==
    LET HasBlock(k) == \E i \in alo..(ahi - k), j \in blo..(bhi - k) : BlockAt(a, b, i, j, k)
        sizes == {k \in 1..Min(ahi - alo, bhi - blo) : HasBlock(k)}
    IN  IF sizes = {} THEN <<alo, blo, 0>>
        ELSE LET k == CHOOSE x \in sizes : \A y \in sizes : y <= x
                 is == {i \in alo..(ahi - k) : \E j \in blo..(bhi - k) : BlockAt(a, b, i, j, k)}
                 i  == CHOOSE x \in is : \A y \in is : x <= y
                 js == {j \in blo..(bhi - k) : BlockAt(a, b, i, j, k)}
                 j  == CHOOSE x \in js : \A y \in js : x <= y
             IN  <<i, j, k>>

\* sum of the sizes of get_matching_blocks()
RECURSIVE matching_size(_, _, _, _, _, _)
matching_size(a, b, alo, ahi, blo, bhi) ==
    LET m == find_longest_match(a, b, alo, ahi, blo, bhi)
        i == m[1]
        j == m[2]
        k == m[3]
    IN  IF k = 0 THEN 0
        ELSE k + (IF alo < i /\ blo < j THEN matching_size(a, b, alo, i, blo, j) ELSE 0)
               + (IF i + k < ahi /\ j + k < bhi
                  THEN matching_size(a, b, i + k, ahi, j + k, bhi) ELSE 0)

\* ratio() as the fraction <<numerator, denominator>>: 2.0 * matches / length,
\* and 1.0 when both texts are empty.
ratio(a, b) ==
    IF Len(a) + Len(b) = 0 THEN <<1, 1>>
    ELSE <<2 * matching_size(a, b, 0, Len(a), 0, Len(b)), Len(a) + Len(b)>>

string_similarity(str1, str2) == ratio(normalize_string(str1), normalize_string(str2))

\* the threshold 0.60, in hundredths
SimilarityThreshold == 60

\* string_similarity(...) >= 0.60
AtLeastThreshold(r) == 100 * r[1] >= SimilarityThreshold * r[2]


(***************************************************************************)
(* Python values used by more than one script                              *)
(***************************************************************************)
\* str(n) of a non-negative int
RECURSIVE IntToText(_)
IntToText(n) == IF n < 10 THEN <<DigitChars[n + 1]>>
                ELSE IntToText(n \div 10) \o <<DigitChars[(n % 10) + 1]>>

DigitValue(c) == (CHOOSE i \in DOMAIN DigitChars : DigitChars[i] = c) - 1

\* the value of a text of digits
RECURSIVE DigitsToInt(_)
DigitsToInt(s) == IF s = <<>> THEN 0
                  ELSE 10 * DigitsToInt(SubSeq(s, 1, Len(s) - 1)) + DigitValue(s[Len(s)])

StartsWith(s, p) == Len(s) >= Len(p) /\ SubSeq(s, 1, Len(p)) = p

\* the kinds of cell value
IsNone(v) == v = None
IsInt(v) == v # <<>> /\ Head(v) = "<int>"
IsFloat(v) == v # <<>> /\ Head(v) = "<float>"
IsDatetime(v) == v # <<>> /\ Head(v) = "<datetime>"
IsText(v) == ~IsNone(v) /\ ~IsInt(v) /\ ~IsFloat(v) /\ ~IsDatetime(v)

\* the int n (n >= 0) and the int -n
IntVal(n) == <<"<int>">> \o IntToText(n)
NegIntVal(n) == <<"<int>", "-">> \o IntToText(n)

\* str(v); a datetime read from a date cell prints with its time of day
Str(v) ==
    CASE IsNone(v) -> <<"N", "o", "n", "e">>
      [] IsInt(v) \/ IsFloat(v) -> Tail(v)
      [] IsDatetime(v) -> Tail(v) \o <<" ", "0", "0", ":", "0", "0", ":", "0", "0">>
      [] OTHER -> v

\* bool(v): None, "", 0 and 0.0 are false
Truthy(v) ==
    CASE IsNone(v) -> FALSE
      [] IsInt(v) \/ IsFloat(v) -> \E i \in 2..Len(v) : IsDigit(v[i]) /\ v[i] # "0"
      [] OTHER -> v # <<>>

\* the exceptions int() raises
ValueError == <<"<ValueError>">>
TypeError == <<"<TypeError>">>

\* the text after the sign that int() accepts: digits, with single
\* underscores between digits
IsIntBody(s) ==
    /\ s # <<>>
    /\ \A i \in DOMAIN s : IsDigit(s[i]) \/ s[i] = "_"
    /\ IsDigit(s[1]) /\ IsDigit(s[Len(s)])
    /\ \A i \in 1..(Len(s) - 1) : ~(s[i] = "_" /\ s[i + 1] = "_")

\* the int of a sign and a magnitude
SignedInt(negative, n) == IF negative /\ n > 0 THEN NegIntVal(n) ELSE IntVal(n)

\* int(s) of a text: surrounding whitespace and a sign are allowed
IntOfText(s) ==
    LET t == Strip(s)
        signed == t # <<>> /\ Head(t) \in {"+", "-"}
        body == IF signed THEN Tail(t) ELSE t
    IN  IF IsIntBody(body)
        THEN SignedInt(signed /\ Head(t) = "-",
                       DigitsToInt(SelectSeq(body, LAMBDA c : c # "_")))
        ELSE ValueError

\* int(x) of a float: truncation toward zero
IntOfFloat(v) ==
    LET t == Tail(v)
        negative == Head(t) = "-"
        u == IF negative THEN Tail(t) ELSE t
        dot == CHOOSE i \in 1..(Len(u) + 1) : (i = Len(u) + 1 \/ u[i] = ".")
                                              /\ \A j \in 1..(i - 1) : u[j] # "."
    IN  SignedInt(negative, DigitsToInt(SubSeq(u, 1, dot - 1)))

\* int(v): the int, or the exception raised
PyInt(v) ==
    CASE IsInt(v) -> v
      [] IsFloat(v) -> IntOfFloat(v)
      [] IsNone(v) \/ IsDatetime(v) -> TypeError
      [] OTHER -> IntOfText(v)

\* a dict: a function on the set of its keys
EmptyDict == <<>>
\* d[k] = v
Assign(d, k, v) == (k :> v) @@ d
\* d.get(k), d.get(k, None)
Get(d, k) == IF k \in DOMAIN d THEN d[k] ELSE None

(***************************************************************************)
(* The header targets of the three scripts                                 *)
(***************************************************************************)
Scripts == {"feedrate", "tbn", "mesys"}

T_ME_load == <<"M","E"," ","l","o","a","d">>
T_Cylinder_oil_feedrate == <<"C","y","l","i","n","d","e","r"," ","o","i","l"," ","f","e","e","d","r","a","t","e">>
T_ME_rh == <<"M","E"," ","r","h">>
T_ME == <<"M","E">>
T_Fe_magnetic == <<"F","e"," ","m","a","g","n","e","t","i","c">>
T_Fe_corrosive == <<"F","e"," ","c","o","r","r","o","s","i","v","e">>
T_Fe_total == <<"F","e"," ","t","o","t","a","l">>
T_Residual_TBN == <<"R","e","s","i","d","u","a","l"," ","T","B","N">>
T_Unit == <<"U","n","i","t">>
T_TBN_of_blended_oil_fed_to_engine == <<"T","B","N"," ","o","f"," ","b","l","e","n","d","e","d"," ","o","i","l"," ","f","e","d"," ","t","o"," ","e","n","g","i","n","e">>
T_Fuel_Sulphur_Content == <<"F","u","e","l"," ","S","u","l","p","h","u","r"," ","C","o","n","t","e","n","t">>
T_Viscosity_40C == <<"V","i","s","c","o","s","i","t","y"," ","@"," ","4","0","C">>
T_Viscosity_100C == <<"V","i","s","c","o","s","i","t","y"," ","@"," ","1","0","0","C">>
T_Base_Number == <<"B","a","s","e"," ","N","u","m","b","e","r">>
T_Water_Level == <<"W","a","t","e","r"," ","L","e","v","e","l">>
T_Top_up_volume == <<"T","o","p"," ","u","p"," ","v","o","l","u","m","e">>
T_PQ_Index == <<"P","Q"," ","I","n","d","e","x">>
T_Oil_on_label == <<"O","i","l"," ","o","n"," ","l","a","b","e","l">>
T_Iso_Code == <<"I","s","o"," ","C","o","d","e">>
T_Vanadium == <<"V","a","n","a","d","i","u","m">>
T_Particle_count_4 == <<"P","a","r","t","i","c","l","e"," ","c","o","u","n","t"," ",">"," ","4"," ","[","<mu>","m","/","m","l","]">>
T_Particle_count_6 == <<"P","a","r","t","i","c","l","e"," ","c","o","u","n","t"," ",">"," ","6"," ","[","<mu>","m","/","m","l","]">>
T_Particle_count_14 == <<"P","a","r","t","i","c","l","e"," ","c","o","u","n","t"," ",">"," ","1","4"," ","[","<mu>","m","/","m","l","]">>

\* range(1, 13): the unit numbers the per-unit targets are generated for
MaxTargetUnit == 12

\* f"{family} {i}"
UnitTarget(family, i) == family \o <<" ">> \o IntToText(i)

\* [f"{family} {i}" for i in range(1, 13)]
UnitTargets(family) == [i \in 1..MaxTargetUnit |-> UnitTarget(family, i)]

\* headers_to_find of the feedrate/load script
headers_to_find_feedrate == <<T_ME_load, T_Cylinder_oil_feedrate, T_ME_rh, T_ME>>

\* headers_to_find of the TBN/Fe script
headers_to_find_tbn ==
    UnitTargets(T_Fe_magnetic) \o UnitTargets(T_Fe_corrosive)
        \o UnitTargets(T_Fe_total) \o UnitTargets(T_Residual_TBN)
        \o UnitTargets(T_Unit)
        \o <<T_ME_rh, T_ME, T_TBN_of_blended_oil_fed_to_engine, T_Fuel_Sulphur_Content>>

\* HEADERS_TO_FIND of the ME SYS oil script
HEADERS_TO_FIND ==
    <<T_Viscosity_40C, T_Viscosity_100C, T_Base_Number, T_Water_Level,
      T_Top_up_volume, T_PQ_Index, T_Oil_on_label, T_Iso_Code,
      T_Particle_count_4, T_Particle_count_6, T_Particle_count_14,
      T_Vanadium>>

headers_to_find(s) ==
    CASE s = "feedrate" -> headers_to_find_feedrate
      [] s = "tbn" -> headers_to_find_tbn
      [] s = "mesys" -> HEADERS_TO_FIND

\* the families matched by exact normalized equality (the TBN/Fe script only)
ExactPrefixes == {T_Fe_magnetic, T_Fe_corrosive, T_Fe_total, T_Residual_TBN, T_Unit}

\* no target is matched by equality
IsExactTarget_Never(s, target_header) == FALSE

\* target_header.startswith(("Fe magnetic", "Fe corrosive", "Fe total", "Residual TBN", "Unit"))
IsExactTarget(s, target_header) ==
    s = "tbn" /\ \E p \in ExactPrefixes : StartsWith(target_header, p)

(***************************************************************************)
(* find_value_columns_by_headers / find_headers                            *)
(***************************************************************************)
\* the first 100 cells of the header row are scanned: row[:100]
HeaderScanLimit == 100

\* cell_value_str: str(cell.value) if cell.value else "", stripped in the
\* TBN/Fe and ME SYS oil scripts, normalized in the feedrate/load script
cell_value_str(s, cell) ==
    IF ~Truthy(cell) THEN <<>>
    ELSE IF s = "feedrate" THEN normalize_string(Str(cell)) ELSE Strip(Str(cell))

\* the condition under which the cell's index is stored for the target
CellMatches(s, cell, target_header) ==
    IF IsExactTarget(s, target_header)
    THEN normalize_string(target_header) = normalize_string(cell_value_str(s, cell))
    ELSE AtLeastThreshold(string_similarity(
             cell_value_str(s, cell),
             IF s = "mesys" THEN target_header ELSE normalize_string(target_header)))

\* the header cells drawn for a sheet of each script
HeaderCells(s) ==
    CASE s = "feedrate" -> {None,
       <<"M","E"," ","L","o","a","d">>,
       <<"L","o","a","d">>,
       <<"M","E"," ","R","H">>,
       <<"H","o","m","e">>}
      [] s = "tbn" -> {None,
       <<"U","n","i","t"," ","1">>,
       <<"u","n","i","t","-","1">>,
       <<"F","e"," ","m","a","g","n","e","t","i","c"," ","2">>,
       <<"F","e"," ","m","a","g","n","e","t","i","c"," ","1">>,
       <<"F","e"," ","m","a","g","n","e","t","i","c"," ","1","0">>,
       <<"M","E"," ","R","H">>,
       <<"M","E"," ","R">>,
       <<"F","u","e","l"," ","S","u","l","p","h","u","r">>}
      [] s = "mesys" -> {None,
       <<"B","a","s","e"," ","N","u","m","b","e","r">>,
       <<"V","i","s","c","o","s","i","t","y"," ","@"," ","1","0","0","C">>,
       <<"V","i","s","c","o","s","i","t","y"," ","@"," ","4","0","C">>,
       <<"V","a","n","a","d","i","u","m">>}

\* CellMatches for every cell the model draws, computed once
MatchedTargets ==
    [s \in Scripts |->
        [cell \in HeaderCells(s) |->
            {t \in Range(headers_to_find(s)) : CellMatches(s, cell, t)}]]

\* CellMatches(s, cell, target_header), read from MatchedTargets
Matched(s, cell, target_header) == target_header \in MatchedTargets[s][cell]

\* a resolver that keeps the first index stored for a target
SetHeaderIndex_KeepFirst(hi, target_header, index) ==
    IF target_header \in DOMAIN hi THEN hi ELSE Assign(hi, target_header, index)

\* header_indices[target_header] = index
SetHeaderIndex(hi, target_header, index) == Assign(hi, target_header, index)

\* a loop that any match ends
RECURSIVE ScanTargets_BreakAlways(_, _, _, _, _)
ScanTargets_BreakAlways(s, targets, cell, index, hi) ==
    IF targets = <<>> THEN hi
    ELSE IF Matched(s, cell, Head(targets))
         THEN SetHeaderIndex(hi, Head(targets), index)
         ELSE ScanTargets_BreakAlways(s, Tail(targets), cell, index, hi)

\* the loop "for target_header in header_strings" for one cell; an exact
\* match ends the loop for that cell (break)
RECURSIVE ScanTargets(_, _, _, _, _)
ScanTargets(s, targets, cell, index, hi) ==
    IF targets = <<>> THEN hi
    ELSE LET target_header == Head(targets)
         IN  IF Matched(s, cell, target_header)
             THEN IF IsExactTarget(s, target_header)
                  THEN SetHeaderIndex(hi, target_header, index)
                  ELSE ScanTargets(s, Tail(targets), cell, index,
                                   SetHeaderIndex(hi, target_header, index))
             ELSE ScanTargets(s, Tail(targets), cell, index, hi)

\* the cells of the indices from..(to - 1) scanned in order: the first
\* half of them, then the second half
RECURSIVE ScanCells(_, _, _, _, _)
ScanCells(s, row, from, to, hi) ==
    IF from >= to THEN hi
    ELSE IF to - from = 1
    THEN ScanTargets(s, headers_to_find(s), row[from + 1], from, hi)
    ELSE LET mid == (from + to) \div 2
             scanned == ScanCells(s, row, from, mid, hi)
         IN  \* the comparison makes the scan of one half end before the next begins
             IF scanned = hi THEN ScanCells(s, row, mid, to, hi)
             ELSE ScanCells(s, row, mid, to, scanned)

\* the whole scan of row 4: for index, cell in enumerate(row[:100])
ScanRow(s, row, index, hi) == ScanCells(s, row, index, Min(Len(row), HeaderScanLimit), hi)

find_value_columns_by_headers(s, row) == ScanRow(s, row, 0, EmptyDict)


(***************************************************************************)
(* parse_date                                                              *)
(***************************************************************************)
\* [\/\-.]
DateSeparators == {"/", "-", "."}

\* the number of digits of s from position p on (p is 1-based)
RECURSIVE DigitRun(_, _)
DigitRun(s, p) == IF p <= Len(s) /\ IsDigit(s[p]) THEN 1 + DigitRun(s, p + 1) ELSE 0

\* (\d{1,2})[\/\-.] at position p: the length of the group, or 0 when the
\* pattern does not match there
DayOrMonthGroup(s, p) ==
    LET n == DigitRun(s, p)
    IN  IF n \in {1, 2} /\ p + n <= Len(s) /\ s[p + n] \in DateSeparators THEN n ELSE 0

\* (\d{2,4}) at position p: greedy, and nothing is required after it
YearGroup(s, p) ==
    LET n == DigitRun(s, p)
    IN  IF n >= 2 THEN Min(n, 4) ELSE 0

\* the pattern anchored at both ends of s, as re.fullmatch would apply it
MatchDate_WholeText(s) ==
    LET n1 == DayOrMonthGroup(s, 1)
        n2 == DayOrMonthGroup(s, n1 + 2)
        n3 == YearGroup(s, n1 + n2 + 3)
    IN  IF n1 > 0 /\ n2 > 0 /\ n3 > 0 /\ n1 + n2 + n3 + 2 = Len(s)
        THEN <<SubSeq(s, 1, n1), SubSeq(s, n1 + 2, n1 + n2 + 1),
               SubSeq(s, n1 + n2 + 3, n1 + n2 + n3 + 2)>>
        ELSE <<>>

\* re.match(pattern, s): the groups <<part1, part2, year>>, or <<>>
MatchDate(s) ==
    LET n1 == DayOrMonthGroup(s, 1)
        n2 == DayOrMonthGroup(s, n1 + 2)
        n3 == YearGroup(s, n1 + n2 + 3)
    IN  IF n1 > 0 /\ n2 > 0 /\ n3 > 0
        THEN <<SubSeq(s, 1, n1), SubSeq(s, n1 + 2, n1 + n2 + 1),
               SubSeq(s, n1 + n2 + 3, n1 + n2 + n3 + 2)>>
        ELSE <<>>

IsLeapYear(y) == y % 4 = 0 /\ (y % 100 # 0 \/ y % 400 = 0)

DaysInMonth(y, mo) ==
    CASE mo = 2 -> IF IsLeapYear(y) THEN 29 ELSE 28
      [] mo \in {4, 6, 9, 11} -> 30
      [] OTHER -> 31

\* two digits, zero-padded
TwoDigits(n) == IF n < 10 THEN <<"0">> \o IntToText(n) ELSE IntToText(n)

\* four digits, zero-padded
FourDigits(n) ==
    IF n < 10 THEN <<"0", "0", "0">> \o IntToText(n)
    ELSE IF n < 100 THEN <<"0", "0">> \o IntToText(n)
    ELSE IF n < 1000 THEN <<"0">> \o IntToText(n)
    ELSE IntToText(n)

\* date_obj.strftime("%Y-%m-%d"): the C library prints %Y; glibc prints a
\* year below 1000 without leading zeros, other libraries pad it to four
\* digits (zero_pad)
strftime(y, mo, d, zero_pad) ==
    (IF zero_pad THEN FourDigits(y) ELSE IntToText(y))
        \o <<"-">> \o TwoDigits(mo) \o <<"-">> \o TwoDigits(d)

\* the same with the two groups taken month first
StrptimeDayFirst_MonthFirst(day, month, year, zero_pad) ==
    LET d == DigitsToInt(month)
        mo == DigitsToInt(day)
        y == DigitsToInt(year)
    IN  IF /\ Len(year) = 4 /\ y >= 1
           /\ mo \in 1..12
           /\ d >= 1 /\ d <= DaysInMonth(y, mo)
        THEN strftime(y, mo, d, zero_pad)
        ELSE None

\* dt.strptime(f"{day}-{month}-{year}", "%d-%m-%Y").strftime("%Y-%m-%d"),
\* or None where strptime raises ValueError: %Y takes exactly four digits,
\* %d a day 1..31 and %m a month 1..12 of one or two digits, and the date
\* must exist
StrptimeDayFirst(day, month, year, zero_pad) ==
    LET d == DigitsToInt(day)
        mo == DigitsToInt(month)
        y == DigitsToInt(year)
    IN  IF /\ Len(year) = 4 /\ y >= 1
           /\ mo \in 1..12
           /\ d >= 1 /\ d <= DaysInMonth(y, mo)
        THEN strftime(y, mo, d, zero_pad)
        ELSE None

\* parse_date on a platform whose strftime pads the year (zero_pad) or not
parse_date_on(date_value, zero_pad) ==
    IF IsDatetime(date_value) THEN Tail(date_value)
    ELSE LET g == MatchDate(Str(date_value))
         IN  IF g = <<>> THEN None
             ELSE StrptimeDayFirst(g[1], g[2],
                                   IF Len(g[3]) = 2 THEN <<"2", "0">> \o g[3] ELSE g[3],
                                   zero_pad)

\* parse_date where the dates of the workbook have years of four digits
parse_date(date_value) == parse_date_on(date_value, FALSE)

(***************************************************************************)
(* State                                                                   *)
(***************************************************************************)
VARIABLES
    script,          \* which script runs: "feedrate", "tbn" or "mesys"
    header_row,      \* row 4 of the sheet being resolved: its cell values
    index,           \* find_value_columns_by_headers: the next cell to scan
    header_indices,  \* find_value_columns_by_headers: the dict being built
    hpc,             \* find_value_columns_by_headers: "scan", "done"
    overview,        \* the Overview sheet from row 2 on: [key |-> row[4], name |-> row[3]]
    orow,            \* map_sheet_names: the number of Overview rows read
    mapping,         \* map_sheet_names: the dict being built
    epc,             \* map_sheet_names and the lookup: "map", "mapped", "looked", "raised"
    sheet_mapping,   \* the dict map_sheet_names returned
    sheet_name,      \* the sheet of the current iteration of the sheet loop
    sheet_key,       \* int(sheet_name), or sheet_name
    vessel_name,     \* sheet_mapping.get(sheet_key, None)
    sheet_names,     \* the sheets the sheet loop visits, in workbook order
    sheet_no,        \* the sheet loop: the number of sheets begun
    header_columns,  \* the sheet loop: the dict the header resolver returned
    max_row,         \* the number of rows iter_rows(min_row=6, ...) yields for the sheet
    row_no,          \* process_xlsx: the number of rows read
    data_row,        \* process_xlsx: the row being read (row)
    rows,            \* process_xlsx: the list being built (rows, data_rows)
    all_rows,        \* the records of the run (all_rows; data_rows in the ME SYS oil script)
    sheet_base,      \* len(all_rows) when the current sheet began
    xpc,             \* the sheet loop: "loop", "rows", "done"
    run_no,          \* the run of the script: 1, then 2 against the same source
    spc,             \* the position of the run from the download to the last sink
    n_records,       \* the number of records the source yields (len(all_rows))
    rows_to_push,    \* len(rows_to_push)
    batch_i,         \* the push loop: i
    mysql_table,     \* the MySQL table: the ranges of records it holds
    pbi_table,       \* the Power BI streaming table: the ranges of records it holds
    collection,      \* the MongoDB collection: the vessels whose calls it holds
    tracked,         \* dataget: the tracked vessels and what the API answers for each
    vessel_i,        \* dataget: the number of tracked vessels visited
    found,           \* dataget: the target IMO was met
    queried,         \* dataget: the positions of the vessels get_vessel was called for
    totalDF,         \* dataget: the vessels whose calls totalDF holds
    error_list,      \* dataget: the vessels listed as errors
    sink_log,        \* the requests the run has made to its sinks
    first_run,       \* the sinks as run 1 left them
    call_args,       \* one call of a helper function: its arguments
    call_result,     \* one call of a helper function: the value returned
    cpc              \* one call of a helper function: "call", "returned"

headerVars == <<header_row, index, header_indices, hpc>>
entityVars == <<overview, orow, mapping, epc>>
lookupVars == <<sheet_mapping, sheet_name, sheet_key, vessel_name>>

extractVars == <<sheet_names, sheet_no, header_columns, max_row, row_no, data_row, rows,
                 all_rows, sheet_base, xpc>>

sinkVars == <<run_no, spc, n_records, rows_to_push, batch_i, mysql_table, pbi_table,
              collection, tracked, vessel_i, found, queried, totalDF, error_list, sink_log, first_run>>

callVars == <<call_args, call_result, cpc>>

vars == <<script, headerVars, entityVars, lookupVars, extractVars, sinkVars, callVars>>

\* the sheet loop has not begun
ExtractIdle ==
    /\ sheet_names = <<>> /\ sheet_no = 0 /\ header_columns = EmptyDict
    /\ max_row = 0 /\ row_no = 0 /\ data_row = <<>> /\ rows = <<>>
    /\ all_rows = <<>> /\ sheet_base = 0 /\ xpc = "idle"

\* no run has begun
SinkIdle ==
    /\ run_no = 0 /\ spc = "idle" /\ n_records = 0 /\ rows_to_push = 0 /\ batch_i = 0
    /\ mysql_table = <<>> /\ pbi_table = <<>> /\ collection = <<>>
    /\ tracked = <<>> /\ vessel_i = 0 /\ found = FALSE /\ queried = <<>> /\ totalDF = <<>>
    /\ error_list = <<>> /\ sink_log = <<>> /\ first_run = <<>>

\* no helper function is being called
CallIdle == call_args = <<>> /\ call_result = None /\ cpc = "idle"

(***************************************************************************)
(* The header resolver, one cell at a time                                 *)
(***************************************************************************)
\* the longest header row drawn
MaxCols == 3

HeaderRows(s) == UNION {[1..n -> HeaderCells(s)] : n \in 0..MaxCols}

HeaderInit ==
    /\ script \in Scripts
    /\ header_row \in HeaderRows(script)
    /\ index = 0
    /\ header_indices = EmptyDict
    /\ hpc = "scan"
    /\ overview = <<>> /\ orow = 0 /\ mapping = EmptyDict /\ epc = "idle"
    /\ sheet_mapping = EmptyDict /\ sheet_name = None /\ sheet_key = None
    /\ vessel_name = None
    /\ ExtractIdle
    /\ SinkIdle
    /\ CallIdle

\* one iteration of "for index, cell in enumerate(row[:100])"
HeaderScanCell ==
    /\ hpc = "scan"
    /\ index < Min(Len(header_row), HeaderScanLimit)
    /\ header_indices' = ScanTargets(script, headers_to_find(script),
                                     header_row[index + 1], index, header_indices)
    /\ index' = index + 1
    /\ UNCHANGED <<script, header_row, hpc, entityVars, lookupVars, extractVars, sinkVars, callVars>>

\* return header_indices
HeaderReturn ==
    /\ hpc = "scan"
    /\ index >= Min(Len(header_row), HeaderScanLimit)
    /\ hpc' = "done"
    /\ UNCHANGED <<script, header_row, index, header_indices, entityVars, lookupVars, extractVars, sinkVars, callVars>>

HeaderNext == HeaderScanCell \/ HeaderReturn

SpecHeader == HeaderInit /\ [][HeaderNext]_vars

\* the indices of the scanned cells that match a target
ScannedMatches(t) == {i \in 0..(index - 1) : Matched(script, header_row[i + 1], t)}

SetMax(S) == CHOOSE x \in S : \A y \in S : y <= x
SetMin(S) == CHOOSE x \in S : \A y \in S : x <= y

\* C1 as claimed: when the scan of row 4 is over, every resolved target holds
\* the index of the leftmost header cell that matches it (first match wins).
C1_FirstMatchWins ==
    hpc = "done" =>
        \A t \in DOMAIN header_indices :
            ScannedMatches(t) # {} /\ header_indices[t] = SetMin(ScannedMatches(t))

\* C1 amended: at every point of the scan a target is resolved exactly when
\* some scanned cell matches it, and it holds the index of the rightmost
\* such cell (every later match overwrites: last match wins).
C1_LastMatchWins ==
    \A t \in Range(headers_to_find(script)) :
        IF ScannedMatches(t) = {}
        THEN t \notin DOMAIN header_indices
        ELSE t \in DOMAIN header_indices /\ header_indices[t] = SetMax(ScannedMatches(t))

\* a finished scan in which some target was matched by two cells
C1_Witness ==
    /\ hpc = "done"
    /\ \E t \in DOMAIN header_indices :
          /\ Cardinality(ScannedMatches(t)) >= 2
          /\ header_indices[t] = SetMax(ScannedMatches(t))
          /\ header_indices[t] # SetMin(ScannedMatches(t))

\* the targets of the families of per-unit columns
InExactFamily(t) == \E p \in ExactPrefixes : StartsWith(t, p)

\* C13: a resolved target that begins with "Fe magnetic", "Fe corrosive",
\* "Fe total", "Residual TBN" or "Unit" holds the index of a header cell
\* whose normalized text equals the normalized target; so no target of unit
\* m holds the index of a cell headed with unit n of its family, m # n,
\* wherever the two cells stand in the row.
C13_ExactFamilies ==
    /\ \A t \in DOMAIN header_indices :
          InExactFamily(t) =>
             LET cell == header_row[header_indices[t] + 1]
             IN  /\ Truthy(cell)
                 /\ normalize_string(Str(cell)) = normalize_string(t)
    /\ \A family \in ExactPrefixes : \A m, n \in 1..MaxTargetUnit :
          (m # n /\ UnitTarget(family, m) \in DOMAIN header_indices) =>
             header_row[header_indices[UnitTarget(family, m)] + 1] # UnitTarget(family, n)

\* the column of unit 10 stands before the column of unit 1, and each of
\* the two targets holds its own column
C13_Witness ==
    /\ script = "tbn" /\ hpc = "done"
    /\ header_row = <<UnitTarget(T_Fe_magnetic, 10), UnitTarget(T_Fe_magnetic, 1)>>
    /\ header_indices[UnitTarget(T_Fe_magnetic, 10)] = 0
    /\ header_indices[UnitTarget(T_Fe_magnetic, 1)] = 1

\* the targets that hold the column of the cell just scanned
AssignedNow == {t \in DOMAIN header_indices' : header_indices'[t] = index}

\* the targets outside the per-unit families
FuzzyTargets == {t \in Range(headers_to_find_tbn) : ~InExactFamily(t)}

\* for every header cell drawn, the targets outside the per-unit families
\* whose similarity to the cell reaches the threshold, computed once
FuzzyMatchesOf ==
    [cell \in HeaderCells("tbn") |->
        {t \in FuzzyTargets :
            AtLeastThreshold(string_similarity(cell_value_str("tbn", cell),
                                               normalize_string(t)))}]

\* the place of every target in headers_to_find of the TBN/Fe script
PlaceOf ==
    [t \in Range(headers_to_find_tbn) |->
        CHOOSE k \in DOMAIN headers_to_find_tbn : headers_to_find_tbn[k] = t]

\* C22: in the TBN/Fe script the scan of one header cell gives its column to
\* at most one target of the per-unit families; when it gives it to one, it
\* gives it to no target listed after that one, the targets "ME rh", "ME",
\* "TBN of blended oil fed to engine" and "Fuel Sulphur Content" among them;
\* when it gives it to none, it gives it to every other target whose
\* similarity to the cell reaches the threshold, which can be several.
C22_ExactMatchBreaks ==
    [][(script = "tbn" /\ index' = index + 1) =>
          LET exact == {t \in AssignedNow : InExactFamily(t)}
          IN  /\ Cardinality(exact) <= 1
              /\ \A e \in exact :
                    /\ normalize_string(e) = normalize_string(Str(header_row[index + 1]))
                    /\ \A t \in AssignedNow : PlaceOf[t] <= PlaceOf[e]
                    /\ AssignedNow = {e}
              /\ exact = {} => AssignedNow = FuzzyMatchesOf[header_row[index + 1]]]_vars

\* the row "Unit 1", "ME R" was scanned: the first column is held by
\* "Unit 1" alone, the second by both "ME rh" and "ME"
C22_Witness ==
    /\ script = "tbn" /\ hpc = "done"
    /\ header_row = <<UnitTarget(T_Unit, 1), <<"M","E"," ","R">>>>
    /\ {t \in DOMAIN header_indices : header_indices[t] = 0} = {UnitTarget(T_Unit, 1)}
    /\ {t \in DOMAIN header_indices : header_indices[t] = 1} = {T_ME_rh, T_ME}


(***************************************************************************)
(* map_sheet_names and the lookup of a sheet's vessel                      *)
(***************************************************************************)
\* iter_rows(min_row=2, max_row=150): at most 149 rows are read
OverviewFirstRow == 2
OverviewLastRow == 150

\* a mapping that keeps the name first stored for a key
SetEntity_KeepFirst(m, key, name) == IF key \in DOMAIN m THEN m ELSE Assign(m, key, name)

\* mapping[key] = row[3]
SetEntity(m, key, name) == Assign(m, key, name)

\* a fallback key with its surrounding whitespace removed
FallbackKey_Trimmed(v) == Strip(Str(v))

\* the key stored when int(row[4]) raises ValueError: str(row[4])
FallbackKey(v) == Str(v)

\* try: int(row[4]) / except ValueError: str(row[4]); a TypeError is not caught
EntityKey(v) ==
    LET k == PyInt(v)
    IN  IF k = ValueError THEN FallbackKey(v) ELSE k

\* try: sheet_key = int(sheet_name) / except ValueError: sheet_key = sheet_name
SheetKey(name) ==
    LET k == PyInt(name)
    IN  IF k = ValueError THEN name ELSE k

\* the longest Overview sheet drawn (rows 2, 3, ...)
MaxOverviewRows == 2

OverviewKeys == {None, IntVal(12), <<"1","2">>, <<" ","X"," ">>, <<"<float>","1","2",".","5">>, <<"<datetime>","2","0","2","3","-","0","1","-","0","1">>}
OverviewNames == {None, <<"V","e","s","s","e","l"," ","A">>, <<"V","e","s","s","e","l"," ","B">>}
OverviewRowValues == [key : OverviewKeys, name : OverviewNames]
Overviews == UNION {[1..n -> OverviewRowValues] : n \in 0..MaxOverviewRows}

\* the sheet names looked up
LookupNames == {<<"1","2">>, <<" ","X"," ">>, <<"X">>}

EntityInit ==
    /\ script \in {"feedrate", "tbn"}
    /\ overview \in Overviews
    /\ orow = 0
    /\ mapping = EmptyDict
    /\ epc = "map"
    /\ sheet_mapping = EmptyDict /\ sheet_name = None /\ sheet_key = None
    /\ vessel_name = None
    /\ header_row = <<>> /\ index = 0 /\ header_indices = EmptyDict /\ hpc = "idle"
    /\ ExtractIdle
    /\ SinkIdle
    /\ CallIdle

\* the rows iter_rows yields
OverviewRowsRead == Min(Len(overview), OverviewLastRow - OverviewFirstRow + 1)

\* one iteration of the loop over the Overview rows
MapRow ==
    /\ epc = "map"
    /\ orow < OverviewRowsRead
    /\ LET row == overview[orow + 1]
       IN  IF row.key # None /\ row.name # None
           THEN IF EntityKey(row.key) = TypeError
                THEN /\ epc' = "raised"
                     /\ UNCHANGED mapping
                ELSE /\ mapping' = SetEntity(mapping, EntityKey(row.key), row.name)
                     /\ UNCHANGED epc
           ELSE UNCHANGED <<mapping, epc>>
    /\ orow' = orow + 1
    /\ UNCHANGED <<script, overview, headerVars, lookupVars, extractVars, sinkVars, callVars>>

\* return mapping
MapReturn ==
    /\ epc = "map"
    /\ orow >= OverviewRowsRead
    /\ sheet_mapping' = mapping
    /\ epc' = "mapped"
    /\ UNCHANGED <<script, overview, orow, mapping, sheet_name, sheet_key, vessel_name, headerVars, extractVars, sinkVars, callVars>>

\* the lookup of one sheet's vessel in the sheet loop
LookupSheet ==
    /\ epc \in {"mapped", "looked"}
    /\ \E name \in LookupNames :
          /\ sheet_name' = name
          /\ sheet_key' = SheetKey(name)
          /\ vessel_name' = Get(sheet_mapping, SheetKey(name))
    /\ epc' = "looked"
    /\ UNCHANGED <<script, overview, orow, mapping, sheet_mapping, headerVars, extractVars, sinkVars, callVars>>

EntityNext == MapRow \/ MapReturn \/ LookupSheet

SpecEntity == EntityInit /\ [][EntityNext]_vars

\* the Overview rows read so far that have both a key and a name
EffectiveRows == {i \in 1..orow : overview[i].key # None /\ overview[i].name # None}

\* C9 as claimed: map_sheet_names never fails on a non-empty key; a key is
\* stored as an integer when int() accepts it and otherwise as the trimmed
\* string of the key; a sheet's name is looked up after the same coercion.
C9_TrimmedStringKeys ==
    /\ epc # "raised"
    /\ \A i \in EffectiveRows :
          LET key == overview[i].key
          IN  IF PyInt(key) \notin {ValueError, TypeError}
              THEN PyInt(key) \in DOMAIN mapping
              ELSE Strip(Str(key)) \in DOMAIN mapping
    /\ epc = "looked" =>
          vessel_name = Get(sheet_mapping,
                            IF PyInt(sheet_name) = ValueError
                            THEN Strip(sheet_name) ELSE PyInt(sheet_name))

\* C9 amended: map_sheet_names fails exactly on a key that is a date
\* (TypeError is not caught); a number is stored as its integer part; a text
\* key is stored as the integer it spells (whitespace around it allowed) and
\* otherwise as the text exactly as found, untrimmed; every key of the map
\* is an integer or a text that spells none; a sheet's name is coerced the
\* same way, so the sheet "12" finds the entry built from the key "12" or 12.
C9_KeyCoercion ==
    /\ epc = "raised" <=>
          /\ orow \in EffectiveRows
          /\ IsDatetime(overview[orow].key)
    /\ epc # "raised" =>
          \A i \in EffectiveRows :
              LET key == overview[i].key
              IN  CASE IsInt(key) -> key \in DOMAIN mapping
                    [] IsFloat(key) -> IntOfFloat(key) \in DOMAIN mapping
                    [] OTHER -> IF IntOfText(key) = ValueError
                                THEN key \in DOMAIN mapping
                                ELSE IntOfText(key) \in DOMAIN mapping
    /\ \A k \in DOMAIN mapping : IsInt(k) \/ (IsText(k) /\ IntOfText(k) = ValueError)
    /\ epc = "looked" =>
          /\ sheet_key = IF IntOfText(sheet_name) = ValueError
                         THEN sheet_name ELSE IntOfText(sheet_name)
          /\ vessel_name = Get(sheet_mapping, sheet_key)
          /\ (/\ sheet_name = <<"1","2">>
              /\ \E i \in EffectiveRows : overview[i].key \in {<<"1","2">>, IntVal(12)})
                => /\ sheet_key = IntVal(12)
                   /\ vessel_name \in {overview[i].name : i \in EffectiveRows}

\* the sheet "12" found its vessel in a map that also holds an untrimmed key
C9_Witness ==
    /\ epc = "looked"
    /\ sheet_name = <<"1","2">>
    /\ vessel_name # None
    /\ <<" ","X"," ">> \in DOMAIN sheet_mapping
    /\ \E i \in EffectiveRows : overview[i].key = <<"1","2">>

\* C10: the name stored for a key is the name of the last Overview row read
\* whose coerced key equals it (rows whose raw keys differ but coerce to the
\* same key included); rows with an empty key or an empty name leave no
\* trace in the map.
C10_LastWriteWins ==
    epc # "raised" =>
        /\ DOMAIN mapping = {EntityKey(overview[i].key) : i \in EffectiveRows}
        /\ \A k \in DOMAIN mapping :
              mapping[k] = overview[SetMax({i \in EffectiveRows :
                                               EntityKey(overview[i].key) = k})].name

\* the keys 12 and "12" were read with different names: the later name stays
C10_Witness ==
    /\ epc = "mapped"
    /\ \E i, j \in EffectiveRows :
          /\ i < j
          /\ overview[i].key # overview[j].key
          /\ {overview[i].key, overview[j].key} = {<<"1","2">>, IntVal(12)}
          /\ overview[i].name # overview[j].name
          /\ sheet_mapping[IntVal(12)] = overview[j].name
    /\ Cardinality(DOMAIN sheet_mapping) = 1


(***************************************************************************)
(* process_xlsx / extract_me_sys_data: the records of one data row         *)
(***************************************************************************)
\* header_columns.get(key) is not None
Resolved(hc, key) == key \in DOMAIN hc

\* row[i], with the 0-based index of the code
Cell(r, i) == r[i + 1]

\* row[i] if i is not None and i < len(row) else None, for i = hc.get(key)
CellOf(r, hc, key) ==
    IF Resolved(hc, key) /\ hc[key] < Len(r) THEN Cell(r, hc[key]) ELSE None

\* x or 0
OrZero(x) == IF Truthy(x) THEN x ELSE IntVal(0)

\* re.match(r".*?(\d+)$", key): the digits the key ends with
RECURSIVE TrailingDigits(_)
TrailingDigits(key) ==
    IF key # <<>> /\ IsDigit(key[Len(key)])
    THEN Append(TrailingDigits(SubSeq(key, 1, Len(key) - 1)), key[Len(key)])
    ELSE <<>>

\* the number a key ends with, 0 when it ends with no digit
TrailingNumber(key) == DigitsToInt(TrailingDigits(key))

\* the number of resolved targets that end with a number
detect_max_cylinders_Count(hc) == Cardinality({key \in DOMAIN hc : TrailingNumber(key) > 0})

\* max_unit = 0; for key in header_columns.keys(): max_unit = max(max_unit, int(match.group(1)))
detect_max_cylinders(hc) == SetMax({0} \cup {TrailingNumber(key) : key \in DOMAIN hc})

L_TBN_Fed == <<"T","B","N"," ","F","e","d">>
L_ME_Load == <<"M","E"," ","L","o","a","d">>
\* f"Cyl. {unit_num}"
L_Cyl(unit_num) == <<"C","y","l","."," ">> \o IntToText(unit_num)

\* the date cells for which the row is skipped: "if not date_value: continue"
\* in every script, "if not parsed_date: continue" in the feedrate/load and
\* ME SYS oil scripts only
RowSkipped(s, dv) ==
    IF s = "tbn" THEN ~Truthy(dv)
    ELSE ~Truthy(dv) \/ ~Truthy(parse_date(dv))

\* row_data of the feedrate/load script
FeedrateRecord(r, hc, vessel) ==
    LET me_rh_value == IF Resolved(hc, T_ME_rh) THEN Cell(r, hc[T_ME_rh])
                       ELSE IF Resolved(hc, T_ME) THEN Cell(r, hc[T_ME])
                       ELSE None
    IN  [VesselID |-> vessel,
         Date |-> parse_date(Cell(r, 0)),
         ME_Load |-> OrZero(Cell(r, 1)),
         CylinderOilFeedrate |-> IF Resolved(hc, T_Cylinder_oil_feedrate)
                                 THEN Cell(r, hc[T_Cylinder_oil_feedrate])
                                 ELSE IntVal(0),
         ME_RH |-> OrZero(me_rh_value)]

\* the fields every record of one row of the TBN/Fe script shares
TbnShared(r, hc) ==
    [Date |-> parse_date(Cell(r, 0)),
     ME_RH |-> IF Resolved(hc, T_ME_rh) THEN CellOf(r, hc, T_ME_rh) ELSE CellOf(r, hc, T_ME),
     Fuel_Sulph |-> CellOf(r, hc, T_Fuel_Sulphur_Content)]

\* the value of the unit's column of a family: row[col] if col is not None else None
UnitCell(r, hc, family, unit_num) ==
    IF Resolved(hc, UnitTarget(family, unit_num))
    THEN Cell(r, hc[UnitTarget(family, unit_num)]) ELSE None

\* the record of one unit
TbnUnitRecord(r, hc, unit_num) ==
    LET sh == TbnShared(r, hc)
    IN  [Date |-> sh.Date, ME_RH |-> sh.ME_RH, Cylinder |-> L_Cyl(unit_num),
         Fe_Magnet |-> UnitCell(r, hc, T_Fe_magnetic, unit_num),
         Fe_Corrosion |-> UnitCell(r, hc, T_Fe_corrosive, unit_num),
         Fe_Total |-> UnitCell(r, hc, T_Fe_total, unit_num),
         Residual_TBN |-> UnitCell(r, hc, T_Residual_TBN, unit_num),
         Unit_RH |-> UnitCell(r, hc, T_Unit, unit_num),
         TBN_Fed |-> None, Fuel_Sulph |-> sh.Fuel_Sulph, ME_Load |-> None]

\* a "TBN Fed" record that also carries the load of the row
TbnFedRecord_WithLoad(r, hc) ==
    [Date |-> parse_date(Cell(r, 0)),
     ME_RH |-> IF Resolved(hc, T_ME_rh) THEN CellOf(r, hc, T_ME_rh) ELSE CellOf(r, hc, T_ME),
     Cylinder |-> L_TBN_Fed,
     Fe_Magnet |-> None, Fe_Corrosion |-> None, Fe_Total |-> None,
     Residual_TBN |-> None, Unit_RH |-> None,
     TBN_Fed |-> CellOf(r, hc, T_TBN_of_blended_oil_fed_to_engine),
     Fuel_Sulph |-> CellOf(r, hc, T_Fuel_Sulphur_Content),
     ME_Load |-> IF Len(r) > 1 THEN Cell(r, 1) ELSE IntVal(0)]

\* the "TBN Fed" record
TbnFedRecord(r, hc) ==
    LET sh == TbnShared(r, hc)
    IN  [Date |-> sh.Date, ME_RH |-> sh.ME_RH, Cylinder |-> L_TBN_Fed,
         Fe_Magnet |-> None, Fe_Corrosion |-> None, Fe_Total |-> None,
         Residual_TBN |-> None, Unit_RH |-> None,
         TBN_Fed |-> CellOf(r, hc, T_TBN_of_blended_oil_fed_to_engine),
         Fuel_Sulph |-> sh.Fuel_Sulph, ME_Load |-> None]

\* the "ME Load" record: me_load = row[1] if len(row) > 1 else 0
TbnLoadRecord(r, hc) ==
    LET sh == TbnShared(r, hc)
    IN  [Date |-> sh.Date, ME_RH |-> sh.ME_RH, Cylinder |-> L_ME_Load,
         Fe_Magnet |-> None, Fe_Corrosion |-> None, Fe_Total |-> None,
         Residual_TBN |-> None, Unit_RH |-> None, TBN_Fed |-> None,
         Fuel_Sulph |-> sh.Fuel_Sulph,
         ME_Load |-> IF Len(r) > 1 THEN Cell(r, 1) ELSE IntVal(0)]

\* records for the units with a resolved column only
TbnRecords_ResolvedUnits(r, hc) ==
    SelectSeq([u \in 1..detect_max_cylinders(hc) |-> TbnUnitRecord(r, hc, u)],
              LAMBDA rec : \E f \in {"Fe_Magnet", "Fe_Corrosion", "Fe_Total",
                                      "Residual_TBN", "Unit_RH"} : rec[f] # None)
        \o <<TbnFedRecord(r, hc), TbnLoadRecord(r, hc)>>

\* the records the TBN/Fe script appends for one row
TbnRecords(r, hc) ==
    [u \in 1..detect_max_cylinders(hc) |-> TbnUnitRecord(r, hc, u)]
        \o <<TbnFedRecord(r, hc), TbnLoadRecord(r, hc)>>

\* row_data of the ME SYS oil script
MeSysRecord(r, hc, name) ==
    [VesselID |-> name,
     Date |-> parse_date(Cell(r, 0)),
     values |-> [header \in Range(HEADERS_TO_FIND) |-> CellOf(r, hc, header)]]

\* the records one iteration of the row loop appends
RowRecords(s, r, hc, vessel, name) ==
    IF RowSkipped(s, Cell(r, 0)) THEN <<>>
    ELSE CASE s = "feedrate" -> <<FeedrateRecord(r, hc, vessel)>>
           [] s = "tbn" -> TbnRecords(r, hc)
           [] s = "mesys" -> <<MeSysRecord(r, hc, name)>>

(***************************************************************************)
(* The sheet loop of the three scripts                                     *)
(***************************************************************************)
\* map_sheet_names as a function of the Overview rows: the dict, or
\* TypeError when int() raises it
\* the Overview rows the loop reads, counted from row 2
RowsRead(ov) == 1..Min(Len(ov), OverviewLastRow - OverviewFirstRow + 1)

\* "if row[4] is not None and row[3] is not None"
RowMapped(ov, i) == ov[i].key # None /\ ov[i].name # None

\* the rows from..to of the Overview read in order: the first half of
\* them, then the second half
RECURSIVE MapRange(_, _, _, _)
MapRange(ov, from, to, m) ==
    IF from > to THEN m
    ELSE IF from = to
    THEN IF RowMapped(ov, from)
         THEN SetEntity(m, EntityKey(ov[from].key), ov[from].name)
         ELSE m
    ELSE LET mid == (from + to) \div 2
             read == MapRange(ov, from, mid, m)
         IN  \* the comparison makes the first half end before the second begins
             IF read = m THEN MapRange(ov, mid + 1, to, m)
             ELSE MapRange(ov, mid + 1, to, read)

\* the rows from row i on read into m; TypeError when int() raises it on
\* one of them
MapRows(ov, i, m) ==
    IF \E n \in RowsRead(ov) : n >= i /\ RowMapped(ov, n) /\ EntityKey(ov[n].key) = TypeError
    THEN TypeError
    ELSE MapRange(ov, i, Min(Len(ov), OverviewLastRow - OverviewFirstRow + 1), m)

map_sheet_names(ov) == MapRows(ov, 1, EmptyDict)

N_Overview == <<"O","v","e","r","v","i","e","w">>
N_Dashboard_table == <<"D","a","s","h","b","o","a","r","d"," ","t","a","b","l","e">>
N_Dashboard == <<"D","a","s","h","b","o","a","r","d">>

\* [s for s in workbook.sheetnames if s not in ["Overview", "Dashboard table", "Dashboard"]]
CandidateSheets(sheetnames) ==
    SelectSeq(sheetnames, LAMBDA n : n \notin {N_Overview, N_Dashboard_table, N_Dashboard})

\* the first data row, and the last row the feedrate/load script reads
FirstDataRow == 6
FeedrateMaxRow == 170

\* the number of rows iter_rows(min_row=6, max_row=...) yields for a sheet
\* with n rows from row 6 on
RowsYielded_All(s, n) == n
RowsYielded(s, n) ==
    IF s = "feedrate" THEN Min(n, FeedrateMaxRow - FirstDataRow + 1) ELSE n

\* a sheet is kept: "if not vessel_name: continue" in the feedrate/load
\* script, "if vessel_name is None: continue" in the TBN/Fe script, no test
\* in the ME SYS oil script
VesselFound_Always(s, vessel) == TRUE
VesselFound(s, vessel) ==
    CASE s = "feedrate" -> Truthy(vessel)
      [] s = "tbn" -> vessel # None
      [] s = "mesys" -> TRUE

\* row["VesselID"] = vessel_name
WithVessel(rec, vessel) == Assign(rec, "VesselID", vessel)

\* the name of the sheet that is longer and wider than the scripts read
N_Long == <<"7">>

\* the long workbook: its Overview has a row below row 150, its data sheet
\* a header in column 101 and rows below row 170
LongWorkbook == <<N_Overview, N_Long, N_Dashboard>>

\* the workbooks drawn: the names of the sheets in order
Workbooks == {<<N_Overview, <<"1","2">>, N_Dashboard, <<"X">>, N_Dashboard_table>>, LongWorkbook}

\* the Overview sheets drawn for a workbook
ExtractOverviews ==
    {<<[key |-> <<"X">>, name |-> <<"V","e","s","s","e","l"," ","B">>]>>,
     <<[key |-> IntVal(12), name |-> <<"V","e","s","s","e","l"," ","A">>],
       [key |-> <<"X">>, name |-> <<"V","e","s","s","e","l"," ","B">>]>>}

\* the Overview of the long workbook: rows 2..149 are empty, row 150 maps
\* the long sheet to a vessel and row 151 maps it to another
LongOverview ==
    [i \in 1..(OverviewLastRow - OverviewFirstRow + 2) |->
        IF i = OverviewLastRow - OverviewFirstRow + 1
        THEN [key |-> IntVal(7), name |-> <<"V","e","s","s","e","l"," ","A">>]
        ELSE IF i = OverviewLastRow - OverviewFirstRow + 2
        THEN [key |-> IntVal(7), name |-> <<"V","e","s","s","e","l"," ","B">>]
        ELSE [key |-> None, name |-> None]]

\* the Overview sheets drawn for the workbook
OverviewsOf(sheetnames) ==
    IF sheetnames = LongWorkbook THEN {LongOverview} ELSE ExtractOverviews

\* the header row of the long sheet: a header of the script in column 100
\* and another in column 101
WideHeaderRow(s) ==
    [c \in 1..(HeaderScanLimit + 1) |->
        IF c = HeaderScanLimit
        THEN CASE s = "feedrate" -> <<"M","E"," ","R","H">>
               [] s = "tbn" -> <<"U","n","i","t"," ","1">>
               [] s = "mesys" -> <<"B","a","s","e"," ","N","u","m","b","e","r">>
        ELSE IF c = HeaderScanLimit + 1
        THEN CASE s = "feedrate" -> <<"M","E"," ","L","o","a","d">>
               [] s = "tbn" -> <<"F","e"," ","m","a","g","n","e","t","i","c"," ","2">>
               [] s = "mesys" -> <<"V","a","n","a","d","i","u","m">>
        ELSE None]

\* the header rows (row 4) drawn for a data sheet
ExtractHeaderRows(s) ==
    CASE s = "feedrate" -> {<<None, None>>,
            <<None, <<"M","E"," ","L","o","a","d">>, <<"M","E"," ","R","H">>>>,
            <<None, <<"M","E"," ","R","H">>, <<"M","E"," ","L","o","a","d">>>>,
            <<None, <<"H","o","m","e">>>>}
      [] s = "tbn" -> {<<None, None>>,
            <<None, <<"U","n","i","t"," ","1">>,
              <<"F","e"," ","m","a","g","n","e","t","i","c"," ","2">>, <<"M","E"," ","R","H">>>>,
            <<None, <<"M","E"," ","R","H">>, <<"F","e"," ","m","a","g","n","e","t","i","c"," ","2">>>>,
            <<None, <<"F","u","e","l"," ","S","u","l","p","h","u","r">>>>}
      [] s = "mesys" -> {<<None, None>>,
            <<None, <<"B","a","s","e"," ","N","u","m","b","e","r">>, <<"V","a","n","a","d","i","u","m">>>>}

\* the most rows a data sheet has from row 6 on
MaxRows == 2

\* the rows the long sheet has below row 170
RowsBeyond == 1

\* the index, counted from row 6, of the last row the feedrate/load script reads
LastIndexRead == FeedrateMaxRow - FirstDataRow + 1

\* the header rows drawn for the sheet of a name
SheetHeaderRows(s, name) ==
    IF name = N_Long THEN {WideHeaderRow(s)} ELSE ExtractHeaderRows(s)

\* the numbers of rows drawn, from row 6 on, for the sheet of a name
SheetExtents(name) ==
    IF name = N_Long THEN {LastIndexRead + RowsBeyond} ELSE 0..MaxRows

\* the date cells drawn: empty, a text that is no date, a day-first text, a date
DateCells ==
    {None, <<"n","/","a">>, <<"0","5","/","0","3","/","2","4">>,
     <<"<datetime>","2","0","2","3","-","0","1","-","0","1">>}

\* the date cells drawn for the n-th row of a sheet of which max rows are
\* read: the rows of the long sheet above row 170 are empty
RowDateCells(n, max) ==
    IF max > MaxRows /\ n < LastIndexRead THEN {None} ELSE DateCells

\* the n-th data row of a sheet w columns wide: the date cell, then numbers
\* that tell the row and the column
DataRow(dv, n, w) == [c \in 1..w |-> IF c = 1 THEN dv ELSE IntVal(10 * n + (c - 1))]

ExtractInit ==
    /\ script \in Scripts
    /\ \E wb \in Workbooks :
          /\ sheet_names = CandidateSheets(wb)
          /\ overview \in OverviewsOf(wb)
    /\ orow = Len(overview)
    /\ mapping = map_sheet_names(overview)
    /\ epc = "mapped"
    /\ sheet_mapping = IF script = "mesys" THEN EmptyDict ELSE map_sheet_names(overview)
    /\ sheet_name = None /\ sheet_key = None /\ vessel_name = None
    /\ header_row = <<>> /\ index = 0 /\ header_indices = EmptyDict /\ hpc = "idle"
    /\ sheet_no = 0 /\ header_columns = EmptyDict
    /\ max_row = 0 /\ row_no = 0 /\ data_row = <<>> /\ rows = <<>>
    /\ all_rows = <<>> /\ sheet_base = 0
    /\ xpc = "loop"
    /\ SinkIdle
    /\ CallIdle

\* the head of one iteration of the sheet loop: the headers are resolved;
\* the sheet is skipped when none is; the feedrate/load script looks the
\* vessel up before it reads the rows and skips the sheet when there is none
StartSheet ==
    /\ xpc = "loop"
    /\ sheet_no < Len(sheet_names)
    /\ \E hr \in SheetHeaderRows(script, sheet_names[sheet_no + 1]),
          n \in SheetExtents(sheet_names[sheet_no + 1]) :
          LET name == sheet_names[sheet_no + 1]
              hc == find_value_columns_by_headers(script, hr)
              vessel == Get(sheet_mapping, SheetKey(name))
          IN  /\ sheet_name' = name
              /\ header_row' = hr
              /\ header_columns' = hc
              /\ sheet_base' = Len(all_rows)
              /\ IF hc = EmptyDict
                 THEN /\ xpc' = "loop"
                      /\ UNCHANGED <<sheet_key, vessel_name, max_row, row_no, rows>>
                 ELSE IF script = "feedrate"
                 THEN /\ sheet_key' = SheetKey(name)
                      /\ vessel_name' = vessel
                      /\ IF VesselFound(script, vessel)
                         THEN /\ xpc' = "rows"
                              /\ max_row' = RowsYielded(script, n)
                              /\ row_no' = 0
                              /\ rows' = <<>>
                         ELSE /\ xpc' = "loop"
                              /\ UNCHANGED <<max_row, row_no, rows>>
                 ELSE /\ xpc' = "rows"
                      /\ max_row' = RowsYielded(script, n)
                      /\ row_no' = 0
                      /\ rows' = <<>>
                      /\ UNCHANGED <<sheet_key, vessel_name>>
    /\ sheet_no' = sheet_no + 1
    /\ UNCHANGED <<script, index, header_indices, hpc, entityVars, sheet_mapping,
                   sheet_names, data_row, all_rows, sinkVars, callVars>>

\* one iteration of the row loop
ProcessRow ==
    /\ xpc = "rows"
    /\ row_no < max_row
    /\ \E dv \in RowDateCells(row_no + 1, max_row) :
          LET r == DataRow(dv, row_no + 1, Max(2, Len(header_row)))
              recs == RowRecords(script, r, header_columns, vessel_name, sheet_name)
          IN  /\ data_row' = r
              /\ IF script = "mesys"
                 THEN all_rows' = all_rows \o recs /\ UNCHANGED rows
                 ELSE rows' = rows \o recs /\ UNCHANGED all_rows
    /\ row_no' = row_no + 1
    /\ UNCHANGED <<script, headerVars, entityVars, lookupVars, sheet_names, sheet_no,
                   header_columns, max_row, sheet_base, xpc, sinkVars, callVars>>

\* the row loop is over: the feedrate/load script extends all_rows; the
\* TBN/Fe script looks the vessel up, skips the sheet when there is none and
\* otherwise stamps every record with it
EndSheet ==
    /\ xpc = "rows"
    /\ row_no >= max_row
    /\ CASE script = "feedrate" ->
              /\ all_rows' = all_rows \o rows
              /\ UNCHANGED <<sheet_key, vessel_name>>
         [] script = "tbn" ->
              LET vessel == Get(sheet_mapping, SheetKey(sheet_name))
              IN  /\ sheet_key' = SheetKey(sheet_name)
                  /\ vessel_name' = vessel
                  /\ all_rows' = IF VesselFound(script, vessel)
                                 THEN all_rows \o [i \in 1..Len(rows) |-> WithVessel(rows[i], vessel)]
                                 ELSE all_rows
         [] script = "mesys" ->
              UNCHANGED <<all_rows, sheet_key, vessel_name>>
    /\ xpc' = "loop"
    /\ UNCHANGED <<script, headerVars, entityVars, sheet_mapping, sheet_name, sheet_names,
                   sheet_no, header_columns, max_row, row_no, data_row, rows, sheet_base,
                   sinkVars, callVars>>

\* the sheet loop is over
ExtractDone ==
    /\ xpc = "loop"
    /\ sheet_no >= Len(sheet_names)
    /\ xpc' = "done"
    /\ UNCHANGED <<script, headerVars, entityVars, lookupVars, sheet_names, sheet_no,
                   header_columns, max_row, row_no, data_row, rows, all_rows, sheet_base,
                   sinkVars, callVars>>

ExtractNext == StartSheet \/ ProcessRow \/ EndSheet \/ ExtractDone

SpecExtract == ExtractInit /\ [][ExtractNext]_vars

\* the list the row loop appends to
Out == IF script = "mesys" THEN all_rows ELSE rows

\* a step of the row loop; data_row' is the row it reads
RowStep == xpc = "rows" /\ row_no' = row_no + 1

\* the records a step appends to the list of the row loop
NewRecords == SubSeq(Out', Len(Out) + 1, Len(Out'))

\* the records the last sheet begun has added to the records of the run
SheetRecords == SubSeq(all_rows, sheet_base + 1, Len(all_rows))

\* C2 as claimed: in every script a row whose date cell is empty, or is
\* not empty but is no date for parse_date, appends no record, and no record
\* appended has a null Date.
C2_RowSkip ==
    [][RowStep =>
          /\ (~Truthy(Cell(data_row', 0)) \/ parse_date(Cell(data_row', 0)) = None)
                => Out' = Out
          /\ \A i \in 1..Len(NewRecords) : NewRecords[i].Date # None]_vars

\* the value a row-level field has when it is read through the resolved
\* headers: the cell of the column resolved for the target, the default
\* when the target is unresolved or the cell is empty
ThroughHeaders(r, hc, target, default) ==
    IF Resolved(hc, target) /\ hc[target] < Len(r) /\ Truthy(Cell(r, hc[target]))
    THEN {Cell(r, hc[target])}
    ELSE IF Resolved(hc, target) /\ hc[target] < Len(r)
    THEN {Cell(r, hc[target]), default}
    ELSE {default}

\* C14: the row-level fields of a record are read from the columns the
\* header resolver found for their targets and take the default when the
\* target is unresolved or the cell is empty: ME_RH from the column of
\* "ME rh" (or "ME"), CylinderOilFeedrate from that of "Cylinder oil
\* feedrate", Fuel_Sulph from that of "Fuel Sulphur Content", and ME_Load,
\* in the feedrate/load and in the TBN/Fe script, from the column resolved
\* for "ME load".
C14_ScalarsFromHeaders ==
    [][RowStep =>
          \A i \in 1..Len(NewRecords) :
              LET rec == NewRecords[i]
                  r == data_row'
                  rh == IF Resolved(header_columns, T_ME_rh) THEN T_ME_rh ELSE T_ME
              IN  CASE script = "feedrate" ->
                         /\ rec.ME_Load \in ThroughHeaders(r, header_columns, T_ME_load, IntVal(0))
                         /\ rec.CylinderOilFeedrate \in
                               ThroughHeaders(r, header_columns, T_Cylinder_oil_feedrate, IntVal(0))
                         /\ rec.ME_RH \in ThroughHeaders(r, header_columns, rh, IntVal(0))
                    [] script = "tbn" ->
                         /\ rec.Cylinder = L_ME_Load =>
                               rec.ME_Load \in ThroughHeaders(r, header_columns, T_ME_load, IntVal(0))
                                                  \cup {None}
                         /\ rec.Fuel_Sulph \in
                               ThroughHeaders(r, header_columns, T_Fuel_Sulphur_Content, None)
                         /\ rec.ME_RH \in ThroughHeaders(r, header_columns, rh, None)
                    [] OTHER -> TRUE]_vars

\* the sheet row of the n-th row from row 6 on
SheetRow(n) == FirstDataRow + n - 1

\* C19: the columns of a HeaderMap are indices 0..99 of cells of row 4; the
\* EntityMap holds only keys and names of Overview rows 2..150; a record
\* is appended only by reading a sheet row from row 6 on, in the
\* feedrate/load script no later than row 170 (its maxRow), while the TBN/Fe
\* and ME SYS oil scripts read every row the sheet has; and the row loop
\* ends only when all those rows were read.
C19_ScanWindows ==
    /\ [](\A t \in DOMAIN header_columns :
              /\ header_columns[t] \in 0..(HeaderScanLimit - 1)
              /\ header_columns[t] < Len(header_row)
              /\ Truthy(header_row[header_columns[t] + 1]))
    /\ [](script # "mesys" =>
              \A k \in DOMAIN sheet_mapping :
                  \E i \in 1..Min(Len(overview), OverviewLastRow - OverviewFirstRow + 1) :
                      /\ overview[i].key # None /\ overview[i].name # None
                      /\ EntityKey(overview[i].key) = k
                      /\ overview[i].name = sheet_mapping[k])
    /\ [][Len(Out') > Len(Out) =>
              /\ RowStep
              /\ SheetRow(row_no') >= FirstDataRow
              /\ script = "feedrate" => SheetRow(row_no') <= FeedrateMaxRow
              /\ \A i \in 1..Len(NewRecords) :
                    NewRecords[i].Date = parse_date(Cell(data_row', 0))]_vars
    /\ [][(sheet_no' = sheet_no + 1 /\ xpc' = "rows") =>
              IF script = "feedrate"
              THEN \E n \in SheetExtents(sheet_name') : max_row' = Min(n, LastIndexRead)
              ELSE max_row' \in SheetExtents(sheet_name')]_vars
    /\ [][(xpc = "rows" /\ xpc' = "loop") => row_no = max_row]_vars

\* the feedrate/load script has read the long sheet: the header in column
\* 101 is not resolved, the vessel is the one of Overview row 150 and not
\* that of row 151, row 170 gave the one record and row 171 was not read
C19_Witness ==
    /\ script = "feedrate" /\ xpc = "loop" /\ sheet_name = N_Long
    /\ Len(header_row) > HeaderScanLimit
    /\ Truthy(header_row[HeaderScanLimit + 1])
    /\ header_columns[T_ME_rh] = HeaderScanLimit - 1
    /\ T_ME_load \notin DOMAIN header_columns
    /\ Len(overview) > OverviewLastRow - OverviewFirstRow + 1
    /\ row_no = LastIndexRead
    /\ SheetRow(row_no) = FeedrateMaxRow
    /\ Len(all_rows) = 1
    /\ all_rows[1].VesselID = <<"V","e","s","s","e","l"," ","A">>
    /\ all_rows[1].Date = <<"2","0","2","4","-","0","3","-","0","5">>

\* the row holds a date: it passes both tests of the row loop
Dated(r) == Truthy(Cell(r, 0)) /\ parse_date(Cell(r, 0)) # None

\* C17: a run of the feedrate/load script never visits a sheet named
\* "Overview", "Dashboard table" or "Dashboard"; it reads the rows of a
\* sheet exactly when the sheet has a resolved header and its name is
\* mapped to a vessel; every row read that holds a date appends one record,
\* with the vessel of the sheet, the date, the load of the row (50 in the
\* row whose load is 50) and its feedrate, and every other row appends
\* none; and the records of a sheet are appended, in row order, to those of
\* the sheets before it.
C17_EndToEnd ==
    /\ [](script = "feedrate" =>
            \A i \in 1..Len(sheet_names) :
                sheet_names[i] \notin {N_Overview, N_Dashboard_table, N_Dashboard})
    /\ [][(script = "feedrate" /\ sheet_no' = sheet_no + 1) =>
            /\ all_rows' = all_rows
            /\ xpc' = "rows" <=>
                  /\ header_columns' # EmptyDict
                  /\ SheetKey(sheet_name') \in DOMAIN sheet_mapping]_vars
    /\ [][(script = "feedrate" /\ RowStep) =>
            IF Dated(data_row')
            THEN /\ Len(NewRecords) = 1
                 /\ NewRecords[1].VesselID = sheet_mapping[SheetKey(sheet_name)]
                 /\ NewRecords[1].Date = parse_date(Cell(data_row', 0))
                 /\ NewRecords[1].ME_Load \in
                       ThroughHeaders(data_row', header_columns, T_ME_load, IntVal(0))
                 /\ NewRecords[1].CylinderOilFeedrate \in
                       ThroughHeaders(data_row', header_columns, T_Cylinder_oil_feedrate,
                                      IntVal(0))
            ELSE NewRecords = <<>>]_vars
    /\ [][(script = "feedrate" /\ xpc = "rows" /\ xpc' = "loop") =>
            all_rows' = all_rows \o rows]_vars

\* the largest unit number for which a target of some per-unit family is resolved
MaxUnitResolved ==
    SetMax({0} \cup {n \in 1..MaxTargetUnit :
                        \E family \in ExactPrefixes :
                            UnitTarget(family, n) \in DOMAIN header_columns})

\* C3: a row whose date cell holds a date appends, in the TBN/Fe script,
\* exactly maxUnit + 2 records: one for each unit 1..maxUnit in order, then
\* the "TBN Fed" record, then the "ME Load" record (4 records when units 1
\* and 2 are detected); in the feedrate/load and ME SYS oil scripts it
\* appends exactly 1 record.
C3_RecordsPerRow ==
    [][(RowStep /\ Truthy(Cell(data_row', 0)) /\ parse_date(Cell(data_row', 0)) # None) =>
          IF script = "tbn"
          THEN /\ Len(NewRecords) = MaxUnitResolved + 2
               /\ \A u \in 1..MaxUnitResolved : NewRecords[u].Cylinder = L_Cyl(u)
               /\ NewRecords[MaxUnitResolved + 1].Cylinder = L_TBN_Fed
               /\ NewRecords[MaxUnitResolved + 2].Cylinder = L_ME_Load
               /\ (\A u \in 1..2 : \E family \in ExactPrefixes :
                       UnitTarget(family, u) \in DOMAIN header_columns)
                     /\ MaxUnitResolved = 2 => Len(NewRecords) = 4
          ELSE Len(NewRecords) = 1]_vars

\* the first row of a TBN/Fe sheet with units 1 and 2 detected held a date
\* and left 4 records
C3_Witness ==
    /\ script = "tbn" /\ xpc = "rows" /\ row_no = 1
    /\ UnitTarget(T_Unit, 1) \in DOMAIN header_columns
    /\ UnitTarget(T_Fe_magnetic, 2) \in DOMAIN header_columns
    /\ parse_date(Cell(data_row, 0)) # None
    /\ Len(rows) = 4
    /\ rows[4].Cylinder = L_ME_Load

\* the per-unit fields of a record and the target family of each
UnitFamilies ==
    [Fe_Magnet |-> T_Fe_magnetic, Fe_Corrosion |-> T_Fe_corrosive, Fe_Total |-> T_Fe_total,
     Residual_TBN |-> T_Residual_TBN, Unit_RH |-> T_Unit]

\* the numbers the names of the resolved targets end with
TrailingNumbers == {DigitsToInt(TrailingDigits(key)) :
                       key \in {k \in DOMAIN header_columns : TrailingDigits(k) # <<>>}}

\* no column of the unit is resolved
UnitUnresolved(n) ==
    \A f \in DOMAIN UnitFamilies : UnitTarget(UnitFamilies[f], n) \notin DOMAIN header_columns

\* C20: in the TBN/Fe script the number of units is the largest number a
\* resolved target name ends with, 0 when none ends with digits; a row that
\* appends records appends one for every unit n of 1..max in order, named
\* "Cyl. n", each of its five per-unit fields being the cell of the column
\* resolved for unit n and null when none is, so that a unit with no column
\* resolved still has its record with the five fields null; they are
\* followed by the two aggregate records, which are all there is when max
\* is 0.
C20_UnitGaps ==
    [][(RowStep /\ script = "tbn" /\ NewRecords # <<>>) =>
          LET max == IF TrailingNumbers = {} THEN 0 ELSE SetMax(TrailingNumbers)
          IN  /\ Len(NewRecords) = max + 2
              /\ \A n \in 1..max :
                    /\ NewRecords[n].Cylinder = L_Cyl(n)
                    /\ \A f \in DOMAIN UnitFamilies :
                          NewRecords[n][f] =
                             IF UnitTarget(UnitFamilies[f], n) \in DOMAIN header_columns
                             THEN Cell(data_row', header_columns[UnitTarget(UnitFamilies[f], n)])
                             ELSE None
                    /\ UnitUnresolved(n) =>
                          \A f \in DOMAIN UnitFamilies : NewRecords[n][f] = None
              /\ NewRecords[max + 1].Cylinder = L_TBN_Fed
              /\ NewRecords[max + 2].Cylinder = L_ME_Load
              /\ max = 0 => Len(NewRecords) = 2]_vars

\* only "Fe magnetic 2" is resolved of the per-unit targets: the dated row
\* left a record of unit 1 with no per-unit value, then that of unit 2
C20_Witness ==
    /\ script = "tbn" /\ xpc = "rows" /\ row_no = 1
    /\ UnitTarget(T_Fe_magnetic, 2) \in DOMAIN header_columns
    /\ UnitUnresolved(1)
    /\ Len(rows) = 4
    /\ rows[1].Cylinder = L_Cyl(1)
    /\ \A f \in DOMAIN UnitFamilies : rows[1][f] = None
    /\ rows[2].Cylinder = L_Cyl(2)
    /\ rows[2].Fe_Magnet # None

\* the value groups of a record of the TBN/Fe script exclude each other
ExclusiveGroups(rec) ==
    LET unitFieldsNull ==
            /\ rec.Fe_Magnet = None /\ rec.Fe_Corrosion = None /\ rec.Fe_Total = None
            /\ rec.Residual_TBN = None /\ rec.Unit_RH = None
    IN  CASE rec.Cylinder = L_TBN_Fed -> unitFieldsNull /\ rec.ME_Load = None
          [] rec.Cylinder = L_ME_Load -> unitFieldsNull /\ rec.TBN_Fed = None
          [] OTHER -> /\ \E u \in 1..MaxTargetUnit : rec.Cylinder = L_Cyl(u)
                      /\ rec.TBN_Fed = None /\ rec.ME_Load = None

\* C4: in the TBN/Fe script the records one row appends all carry the same
\* Date, ME_RH and Fuel_Sulph; when the sheet is mapped they enter the
\* records of the run unchanged but for the VesselID of the sheet, the same
\* for all; and in every record the value groups exclude each other: a
\* per-unit record has TBN_Fed and ME_Load null, the "TBN Fed" record has the
\* five per-unit fields and ME_Load null, the "ME Load" record has the five
\* per-unit fields and TBN_Fed null.
C4_Siblings ==
    /\ [](script = "tbn" =>
            /\ \A i \in 1..Len(rows) : ExclusiveGroups(rows[i])
            /\ \A i \in 1..Len(all_rows) : ExclusiveGroups(all_rows[i]))
    /\ [][(RowStep /\ script = "tbn") =>
            \A i, j \in 1..Len(NewRecords) :
                /\ NewRecords[i].Date = NewRecords[j].Date
                /\ NewRecords[i].ME_RH = NewRecords[j].ME_RH
                /\ NewRecords[i].Fuel_Sulph = NewRecords[j].Fuel_Sulph]_vars
    /\ [][(script = "tbn" /\ xpc = "rows" /\ xpc' = "loop" /\ all_rows' # all_rows) =>
            /\ Len(all_rows') = Len(all_rows) + Len(rows)
            /\ \A i \in 1..Len(rows) :
                  LET rec == all_rows'[Len(all_rows) + i]
                  IN  /\ rec.VesselID = sheet_mapping[SheetKey(sheet_name)]
                      /\ \A f \in DOMAIN rows[i] : rec[f] = rows[i][f]]_vars

\* a mapped TBN/Fe sheet with units 1 and 2 has given the four records of
\* its one row, with the hours of the engine and of unit 1 and the load
C4_Witness ==
    /\ script = "tbn" /\ xpc = "loop"
    /\ Len(all_rows) = 4
    /\ \A i \in 1..4 :
          /\ all_rows[i].VesselID = <<"V","e","s","s","e","l"," ","A">>
          /\ all_rows[i].Date = <<"2","0","2","4","-","0","3","-","0","5">>
          /\ all_rows[i].ME_RH # None
    /\ all_rows[1].Unit_RH # None
    /\ all_rows[2].Fe_Magnet # None
    /\ all_rows[3].Cylinder = L_TBN_Fed
    /\ all_rows[4].ME_Load # None

\* C8 as claimed: in every script a sheet with no header resolved, or whose
\* coerced name is no key of the EntityMap of the workbook, adds no record,
\* and every record a sheet adds carries the EntityMap value of the sheet.
C8_SheetSkipEverywhere ==
    (xpc \in {"loop", "done"} /\ sheet_no > 0) =>
        LET entityMap == map_sheet_names(overview)
        IN  IF header_columns = EmptyDict \/ SheetKey(sheet_name) \notin DOMAIN entityMap
            THEN SheetRecords = <<>>
            ELSE \A i \in 1..Len(SheetRecords) :
                    SheetRecords[i].VesselID = entityMap[SheetKey(sheet_name)]

\* C8 amended: in the feedrate/load and TBN/Fe scripts a sheet with no header
\* resolved, or whose coerced name is no key of the EntityMap, adds no
\* record, and every record a sheet adds carries the EntityMap value of the
\* sheet; the ME SYS oil script consults no EntityMap: only a sheet with no
\* header resolved is skipped there, and every record carries the name of
\* its sheet as VesselID. In all three scripts the loop goes on after a
\* skipped sheet and ends only when every candidate sheet was visited.
C8_SheetSkip ==
    /\ (xpc \in {"loop", "done"} /\ sheet_no > 0) =>
          IF script = "mesys"
          THEN /\ header_columns = EmptyDict => SheetRecords = <<>>
               /\ \A i \in 1..Len(SheetRecords) : SheetRecords[i].VesselID = sheet_name
          ELSE IF header_columns = EmptyDict \/ SheetKey(sheet_name) \notin DOMAIN sheet_mapping
               THEN SheetRecords = <<>>
               ELSE \A i \in 1..Len(SheetRecords) :
                       SheetRecords[i].VesselID = sheet_mapping[SheetKey(sheet_name)]
    /\ xpc = "done" => sheet_no = Len(sheet_names)
    /\ script # "mesys" =>
          \A i \in 1..Len(all_rows) :
              \E n \in 1..sheet_no :
                  /\ SheetKey(sheet_names[n]) \in DOMAIN sheet_mapping
                  /\ all_rows[i].VesselID = sheet_mapping[SheetKey(sheet_names[n])]

\* the first sheet has no vessel in the EntityMap and left nothing; the
\* second sheet was read after it and all the records of the run are its own
C8_Witness ==
    /\ script \in {"feedrate", "tbn"} /\ xpc = "done"
    /\ Len(sheet_names) = 2
    /\ SheetKey(sheet_names[1]) \notin DOMAIN sheet_mapping
    /\ sheet_base = 0
    /\ all_rows # <<>>
    /\ \A i \in 1..Len(all_rows) :
          all_rows[i].VesselID = sheet_mapping[SheetKey(sheet_names[2])]

-----------------------------------------------------------------------------
\* The sinks. A run of one of the three spreadsheet scripts downloads the
\* workbook, extracts n_records records, replaces the MySQL table (not the
\* ME SYS oil script), connects to Power BI, clears the streaming table and
\* pushes the rows in batches. A run of dataget polls the schedule API for
\* the tracked vessels and replaces the MongoDB collection. The contents of
\* a table are the ranges <<lo, hi>> of the records of the source it holds,
\* in the order they were written; the contents of the collection are the
\* tracked vessels whose calls it holds.

SinkScripts == Scripts \cup {"dataget"}

batch_size == 10000

\* the largest number of batches a run pushes
MaxBatches == 3

\* the largest number of tracked vessels
MaxVessels == 2

\* what a sink holds before the first run: rows no run of the model wrote
Stale == <<0, 0>>

\* len(all_rows): up to the last record of every batch and one past it
RecordCounts(s) ==
    (IF s = "mesys" THEN {0} ELSE {})
    \cup {(k - 1) * batch_size + d : k \in 1..MaxBatches, d \in {1, batch_size}}

\* the status codes the Power BI service answers with
StatusCodes == {200, 202, 204, 500}

\* the service carries a request out when it answers with a 2xx status
ServiceApplies(status) == status \in 200..299

\* "if push_response.status_code in [200, 202]"
PushOk_Any2xx(status) == status \in 200..299

PushOk(status) == status \in {200, 202}

\* "if response.status_code == 200" in total_DF_creator
ResponseOk(status) == status = 200

target_imo == <<"9", "2", "8", "3", "2", "2", "7">>

\* "(not vesselIMO.isnumeric()) or (len(vesselIMO) != 7)"
InvalidIMO(imo) == ~(imo # <<>> /\ \A i \in 1..Len(imo) : IsDigit(imo[i])) \/ Len(imo) # 7

\* the if / elif chain of the loop: the request is made for the target,
\* not for an invalid IMO, not before the target was found, and else it is
Polled_ValidOnly(imo, target_found) == imo = target_imo \/ ~InvalidIMO(imo)
Polled(imo, target_found) ==
    IF imo = target_imo THEN TRUE
    ELSE IF InvalidIMO(imo) THEN FALSE
    ELSE IF ~target_found THEN FALSE
    ELSE TRUE

\* the IMO column of trackedvessels.xlsx: the target, another IMO, 7
\* characters that are not all digits, and 6 digits
TrackedIMOs == {target_imo, <<"1", "2", "3", "4", "5", "6", "7">>,
                <<"1", "2", "A", "4", "5", "6", "7">>, <<"1", "2", "3", "4", "5", "6">>}

\* what get_vessel does for one vessel: it raises, or it returns a response
\* with a status and, in a 200 response, a number of vessel calls
ApiAnswers ==
    {[raises |-> TRUE, status |-> 0, calls |-> 0]}
    \cup {[raises |-> FALSE, status |-> 200, calls |-> c] : c \in {0, 1}}
    \cup {[raises |-> FALSE, status |-> 401, calls |-> 0]}

TrackedVessels == [imo : TrackedIMOs, api : ApiAnswers]

TrackedLists == UNION {[1..n -> TrackedVessels] : n \in 0..MaxVessels}

\* one request to a sink
Req(op, lo, hi, status, raised) ==
    [op |-> op, lo |-> lo, hi |-> hi, status |-> status, raised |-> raised]

\* rows_to_push[i:i + batch_size]
Batch(i, n) == <<i + 1, Min(i + batch_size, n)>>

RECURSIVE RowsHeld(_)
\* len of "SELECT * FROM table"
RowsHeld(table) ==
    IF table = <<>> THEN 0
    ELSE (table[1][2] - table[1][1] + 1) + RowsHeld(Tail(table))

\* what the sinks of a script hold before the first run
InitialSinks(s) ==
    <<IF s \in {"feedrate", "tbn"} THEN <<Stale>> ELSE <<>>,
      IF s \in Scripts THEN <<Stale>> ELSE <<>>,
      IF s = "dataget" THEN <<0>> ELSE <<>>>>

Sinks == <<mysql_table, pbi_table, collection>>

SinkInit ==
    /\ script \in SinkScripts
    /\ run_no = 1
    /\ spc = IF script = "dataget" THEN "poll" ELSE "download"
    /\ n_records \in (IF script = "dataget" THEN {0} ELSE RecordCounts(script))
    /\ rows_to_push = 0 /\ batch_i = 0
    /\ mysql_table = InitialSinks(script)[1]
    /\ pbi_table = InitialSinks(script)[2]
    /\ collection = InitialSinks(script)[3]
    /\ tracked \in (IF script = "dataget" THEN TrackedLists ELSE {<<>>})
    /\ vessel_i = 0 /\ found = FALSE /\ queried = <<>> /\ totalDF = <<>> /\ error_list = <<>>
    /\ sink_log = <<>> /\ first_run = <<>>
    /\ header_row = <<>> /\ index = 0 /\ header_indices = EmptyDict /\ hpc = "idle"
    /\ overview = <<>> /\ orow = 0 /\ mapping = EmptyDict /\ epc = "idle"
    /\ sheet_mapping = EmptyDict /\ sheet_name = None /\ sheet_key = None
    /\ vessel_name = None
    /\ ExtractIdle
    /\ CallIdle

otherVars == <<headerVars, entityVars, lookupVars, extractVars, callVars>>

\* the Graph authentication and the download of the workbook: any failure
\* raises and ends the run; otherwise the records are extracted
Download ==
    /\ script \in Scripts /\ spc = "download"
    /\ \E ok \in BOOLEAN :
          spc' = IF ~ok THEN "source_failed"
                 ELSE IF script = "mesys" THEN "pbi_connect" ELSE "mysql_clear"
    /\ UNCHANGED <<script, run_no, n_records, rows_to_push, batch_i, mysql_table, pbi_table,
                   collection, tracked, vessel_i, found, queried, totalDF, error_list, sink_log,
                   first_run, otherVars>>

\* the table after "DELETE FROM table" has committed
DeleteFrom_Nothing(table) == table
DeleteFrom(table) == <<>>

\* "with engine.begin() as conn": DELETE FROM and ALTER TABLE in one transaction
MysqlClear ==
    /\ spc = "mysql_clear"
    /\ \E raised \in BOOLEAN :
          /\ sink_log' = Append(sink_log, Req("mysql_delete", 0, 0, 0, raised))
          /\ mysql_table' = IF raised THEN mysql_table ELSE DeleteFrom(mysql_table)
          /\ spc' = IF raised THEN "sink_failed" ELSE "mysql_append"
    /\ UNCHANGED <<script, run_no, n_records, rows_to_push, batch_i, pbi_table,
                   collection, tracked, vessel_i, found, queried, totalDF, error_list,
                   first_run, otherVars>>

\* df.to_sql(table, if_exists="append")
MysqlAppend ==
    /\ spc = "mysql_append"
    /\ \E raised \in BOOLEAN :
          /\ sink_log' = Append(sink_log, Req("mysql_append", 1, n_records, 0, raised))
          /\ mysql_table' = IF raised THEN mysql_table
                            ELSE Append(mysql_table, <<1, n_records>>)
          /\ spc' = IF raised THEN "sink_failed" ELSE "pbi_connect"
    /\ UNCHANGED <<script, run_no, n_records, rows_to_push, batch_i, pbi_table,
                   collection, tracked, vessel_i, found, queried, totalDF, error_list,
                   first_run, otherVars>>

\* the Power BI token, the dataset and its table, then rows_to_push: the
\* rows read back from MySQL, or the rows of df in the ME SYS oil script
PbiConnect ==
    /\ spc = "pbi_connect"
    /\ \E ok \in BOOLEAN :
          IF ok
          THEN /\ rows_to_push' = IF script = "mesys" THEN n_records
                                  ELSE RowsHeld(mysql_table)
               /\ spc' = "pbi_clear"
          ELSE /\ spc' = "sink_failed"
               /\ UNCHANGED rows_to_push
    /\ UNCHANGED <<script, run_no, n_records, batch_i, mysql_table, pbi_table,
                   collection, tracked, vessel_i, found, queried, totalDF, error_list, sink_log,
                   first_run, otherVars>>

\* requests.delete(pbi_clear_url): a status other than 200 and 202 is a
\* warning (ignored in the ME SYS oil script) and the push begins all the same
PbiClear ==
    /\ spc = "pbi_clear"
    /\ \E status \in StatusCodes :
          /\ sink_log' = Append(sink_log, Req("pbi_delete", 0, 0, status, FALSE))
          /\ pbi_table' = IF ServiceApplies(status) THEN <<>> ELSE pbi_table
    /\ batch_i' = 0
    /\ spc' = "push"
    /\ UNCHANGED <<script, run_no, n_records, rows_to_push, mysql_table,
                   collection, tracked, vessel_i, found, queried, totalDF, error_list,
                   first_run, otherVars>>

\* one iteration of "for i in range(0, len(rows_to_push), batch_size)"
PushBatch ==
    /\ spc = "push"
    /\ batch_i < rows_to_push
    /\ LET batch == Batch(batch_i, rows_to_push)
       IN  \E status \in StatusCodes :
              /\ sink_log' = Append(sink_log, Req("pbi_post", batch[1], batch[2], status, FALSE))
              /\ pbi_table' = IF ServiceApplies(status) THEN Append(pbi_table, batch)
                              ELSE pbi_table
              /\ IF PushOk(status)
                 THEN /\ batch_i' = batch_i + batch_size
                      /\ UNCHANGED spc
                 ELSE /\ spc' = "sink_failed"
                      /\ UNCHANGED batch_i
    /\ UNCHANGED <<script, run_no, n_records, rows_to_push, mysql_table,
                   collection, tracked, vessel_i, found, queried, totalDF, error_list,
                   first_run, otherVars>>

\* the range is exhausted
PushEnd ==
    /\ spc = "push"
    /\ batch_i >= rows_to_push
    /\ spc' = "done"
    /\ UNCHANGED <<script, run_no, n_records, rows_to_push, batch_i, mysql_table, pbi_table,
                   collection, tracked, vessel_i, found, queried, totalDF, error_list, sink_log,
                   first_run, otherVars>>

\* one iteration of "for index, vesselIMO in trackerDF["IMO"].items()"
PollVessel ==
    /\ script = "dataget" /\ spc = "poll"
    /\ vessel_i < Len(tracked)
    /\ LET vessel == tracked[vessel_i + 1]
           polled == Polled(vessel.imo, found)
       IN  /\ found' = (found \/ vessel.imo = target_imo)
           /\ queried' = IF polled THEN Append(queried, vessel_i + 1) ELSE queried
           /\ IF ~polled
              THEN UNCHANGED <<spc, totalDF, error_list>>
              ELSE IF vessel.api.raises
              THEN /\ spc' = "source_failed"
                   /\ UNCHANGED <<totalDF, error_list>>
              ELSE IF ResponseOk(vessel.api.status)
              THEN /\ totalDF' = IF vessel.api.calls > 0 THEN Append(totalDF, vessel_i + 1)
                                 ELSE totalDF
                   /\ UNCHANGED <<spc, error_list>>
              ELSE /\ error_list' = Append(error_list, vessel_i + 1)
                   /\ UNCHANGED <<spc, totalDF>>
    /\ vessel_i' = vessel_i + 1
    /\ UNCHANGED <<script, run_no, n_records, rows_to_push, batch_i, mysql_table, pbi_table,
                   collection, tracked, sink_log, first_run, otherVars>>

\* "return totalDF, error_list", the errors are printed and the client is made
PollEnd ==
    /\ script = "dataget" /\ spc = "poll"
    /\ vessel_i = Len(tracked)
    /\ spc' = "mongo_delete"
    /\ UNCHANGED <<script, run_no, n_records, rows_to_push, batch_i, mysql_table, pbi_table,
                   collection, tracked, vessel_i, found, queried, totalDF, error_list, sink_log,
                   first_run, otherVars>>

\* collection.delete_many({})
MongoDelete ==
    /\ spc = "mongo_delete"
    /\ \E raised \in BOOLEAN :
          /\ sink_log' = Append(sink_log, Req("mongo_delete", 0, 0, 0, raised))
          /\ collection' = IF raised THEN collection ELSE <<>>
          /\ spc' = IF raised THEN "sink_failed" ELSE "mongo_insert"
    /\ UNCHANGED <<script, run_no, n_records, rows_to_push, batch_i, mysql_table, pbi_table,
                   tracked, vessel_i, found, queried, totalDF, error_list, first_run, otherVars>>

\* collection.insert_many(data_dictionary): an empty list of documents is a
\* TypeError raised before anything is sent
MongoInsert ==
    /\ spc = "mongo_insert"
    /\ IF totalDF = <<>>
       THEN /\ spc' = "sink_failed"
            /\ UNCHANGED <<collection, sink_log>>
       ELSE \E raised \in BOOLEAN :
               /\ sink_log' = Append(sink_log, Req("mongo_insert", 1, Len(totalDF), 0, raised))
               /\ collection' = IF raised THEN collection ELSE collection \o totalDF
               /\ spc' = IF raised THEN "sink_failed" ELSE "done"
    /\ UNCHANGED <<script, run_no, n_records, rows_to_push, batch_i, mysql_table, pbi_table,
                   tracked, vessel_i, found, queried, totalDF, error_list, first_run, otherVars>>

\* the script is run a second time: the source is the same and the sinks
\* are as the first run left them
Rerun ==
    /\ spc = "done" /\ run_no = 1
    /\ run_no' = 2
    /\ first_run' = Sinks
    /\ spc' = IF script = "dataget" THEN "poll" ELSE "download"
    /\ rows_to_push' = 0 /\ batch_i' = 0
    /\ vessel_i' = 0 /\ found' = FALSE /\ queried' = <<>> /\ totalDF' = <<>>
    /\ error_list' = <<>>
    /\ sink_log' = <<>>
    /\ UNCHANGED <<script, n_records, mysql_table, pbi_table, collection, tracked, otherVars>>

SinkNext ==
    \/ Download \/ MysqlClear \/ MysqlAppend \/ PbiConnect \/ PbiClear
    \/ PushBatch \/ PushEnd
    \/ PollVessel \/ PollEnd \/ MongoDelete \/ MongoInsert
    \/ Rerun

SpecSink == SinkInit /\ [][SinkNext]_vars

\* the batches posted in this run, in the order of the requests
Posted == SelectSeq(sink_log, LAMBDA r : r.op = "pbi_post")

\* the batches of this run the service took
Delivered == SelectSeq(Posted, LAMBDA r : ServiceApplies(r.status))

\* the number of times each item occurs in a sequence
Occurrences(seq) == [x \in Range(seq) |-> Cardinality({i \in DOMAIN seq : seq[i] = x})]

\* C5: when the second run against the same source has ended, each sink
\* (the MySQL table, the Power BI streaming table, the MongoDB collection)
\* holds the same multiset of records as it held after the first run,
\* whatever the clear step was answered.
C5_Idempotent ==
    (run_no = 2 /\ spc = "done") =>
        \A k \in 1..3 : Occurrences(Sinks[k]) = Occurrences(first_run[k])

\* C6, with a failure being a response outside 2xx: the batches posted are
\* the consecutive slices of batch_size rows in order, every batch but the
\* last one posted was answered 2xx, and a run the push loop has ended was
\* ended by a response outside 2xx.
C6_BatchingNon2xx ==
    script \in Scripts =>
        /\ \A k \in 1..Len(Posted) :
              /\ Posted[k].lo = (k - 1) * batch_size + 1
              /\ Posted[k].hi = Min(k * batch_size, rows_to_push)
        /\ \A k \in 1..(Len(Posted) - 1) : Posted[k].status \in 200..299
        /\ (spc = "sink_failed" /\ Posted # <<>>) =>
              Posted[Len(Posted)].status \notin 200..299
        /\ (spc = "push" /\ Posted # <<>>) => Posted[Len(Posted)].status \in 200..299

\* C6 (amended): a failure is a response whose status is neither 200 nor
\* 202. The batches posted are the consecutive slices of at most batch_size
\* rows of rows_to_push in order; a batch is posted only when every batch
\* before it was answered 200 or 202; a response that is neither ends the
\* run with that batch the last one posted; the run is done only when every
\* row was posted and accepted; the batches the service took are in the
\* table after whatever the clear step left.
C6_Batching ==
    script \in Scripts =>
        /\ \A k \in 1..Len(Posted) :
              /\ Posted[k].lo = (k - 1) * batch_size + 1
              /\ Posted[k].hi = Min(k * batch_size, rows_to_push)
              /\ Posted[k].lo <= Posted[k].hi
              /\ Posted[k].hi - Posted[k].lo + 1 <= batch_size
        /\ \A k \in 1..(Len(Posted) - 1) : Posted[k].status \in {200, 202}
        /\ Posted # <<>> =>
              (Posted[Len(Posted)].status \notin {200, 202} <=> spc = "sink_failed")
        /\ spc = "done" =>
              /\ \A k \in 1..Len(Posted) : Posted[k].status \in {200, 202}
              /\ IF rows_to_push = 0 THEN Posted = <<>>
                 ELSE Posted[Len(Posted)].hi = rows_to_push
        /\ Len(pbi_table) >= Len(Delivered)
        /\ \A k \in 1..Len(Delivered) :
              pbi_table[Len(pbi_table) - Len(Delivered) + k]
                  = <<Delivered[k].lo, Delivered[k].hi>>

\* the second of three batches was refused: the first stays in the table
\* and the third was never posted
C6_Witness ==
    /\ script = "feedrate" /\ spc = "sink_failed"
    /\ rows_to_push = 3 * batch_size
    /\ Len(Posted) = 2
    /\ Posted[1].status = 202 /\ Posted[2].status = 500
    /\ pbi_table = <<<<1, batch_size>>>>

\* a source that could not be reached: the download failed, a request to
\* the schedule API raised, or a tracked vessel was answered with a status
\* other than 200
SourceUnavailable == spc = "source_failed" \/ error_list # <<>>

\* C7: when the source could not be reached, the run makes no request to any
\* sink and the sinks hold what they held before the run.
C7_SourceFatal ==
    SourceUnavailable =>
        /\ sink_log = <<>>
        /\ Sinks = IF run_no = 1 THEN InitialSinks(script) ELSE first_run

\* the target IMO is at one of the first n positions of the tracker list
TargetWithin(n) == \E j \in 1..n : tracked[j].imo = target_imo

\* a text of 7 characters, all of them digits
SevenDigits(imo) == Len(imo) = 7 /\ \A i \in 1..7 : imo[i] \in Range(DigitChars)

\* C21: total_DF_creator goes through the tracker list in order and calls
\* the schedule API for the vessel it is at if and only if the IMO is the
\* target "9283227", or is 7 digits and the target is at an earlier
\* position; so no vessel before the first occurrence of the target is
\* queried, and when the target is not in the list no vessel is queried and
\* the result is empty.
C21_PollingGate ==
    /\ [][(script = "dataget" /\ vessel_i' = vessel_i + 1) =>
            LET imo == tracked[vessel_i + 1].imo
            IN  IF imo = target_imo \/ (SevenDigits(imo) /\ TargetWithin(vessel_i))
                THEN queried' = Append(queried, vessel_i + 1)
                ELSE queried' = queried]_vars
    /\ [](script = "dataget" =>
            /\ \A k \in 1..Len(queried) : TargetWithin(queried[k])
            /\ \A k \in 1..Len(totalDF) : \E q \in 1..Len(queried) : queried[q] = totalDF[k]
            /\ ~TargetWithin(Len(tracked)) => queried = <<>> /\ totalDF = <<>>)

\* the list is another vessel and then the target: the loop has ended, the
\* first vessel was not queried and the target was
C21_Witness ==
    /\ script = "dataget" /\ spc = "mongo_delete" /\ run_no = 1
    /\ Len(tracked) = 2
    /\ SevenDigits(tracked[1].imo) /\ tracked[1].imo # target_imo
    /\ tracked[2].imo = target_imo
    /\ queried = <<2>>
    /\ totalDF = <<2>>

\* the requests of this run to the MySQL table, in order
MysqlRequests == SelectSeq(sink_log, LAMBDA r : r.op \in {"mysql_delete", "mysql_append"})

\* the clear of this run has committed
Cleared == MysqlRequests # <<>> /\ ~MysqlRequests[1].raised

\* the append of this run has committed
Appended == Len(MysqlRequests) = 2 /\ ~MysqlRequests[2].raised

\* C18: in the feedrate/load and TBN/Fe scripts the MySQL table is cleared
\* (DELETE and auto-increment reset in one transaction) only after the
\* extraction has completed, and the append is a later step of its own,
\* made only once the clear has committed; so when the clear has committed
\* and the append has not, the table is empty, and the table never holds
\* new rows beside the rows of the run before: after the append it holds
\* the records of this run and nothing else.
C18_ClearThenAppend ==
    /\ [](script \in {"feedrate", "tbn"} =>
            /\ spc \in {"download", "source_failed"} => MysqlRequests = <<>>
            /\ Len(MysqlRequests) <= 2
            /\ MysqlRequests # <<>> => MysqlRequests[1].op = "mysql_delete"
            /\ Len(MysqlRequests) = 2 =>
                  MysqlRequests[2].op = "mysql_append" /\ Cleared
            /\ (Cleared /\ ~Appended) => mysql_table = <<>>
            /\ Appended => mysql_table = <<<<1, n_records>>>>
            /\ ~Cleared => mysql_table = (IF run_no = 1 THEN InitialSinks(script)[1]
                                          ELSE first_run[1]))
    /\ [][(script \in {"feedrate", "tbn"} /\ mysql_table' # mysql_table) =>
            \/ spc = "mysql_clear" /\ mysql_table' = <<>>
            \/ spc = "mysql_append" /\ mysql_table = <<>>]_vars

\* the clear of the first run committed and its append raised: the rows the
\* table held are gone and it is empty
C18_Witness ==
    /\ script = "feedrate" /\ run_no = 1 /\ spc = "sink_failed"
    /\ Cleared /\ Len(MysqlRequests) = 2 /\ MysqlRequests[2].raised
    /\ mysql_table = <<>>

-----------------------------------------------------------------------------
\* Calls of the helper functions, one call per behaviour.

\* nothing of a sheet or a run is in progress
RunIdle ==
    /\ header_row = <<>> /\ index = 0 /\ header_indices = EmptyDict /\ hpc = "idle"
    /\ overview = <<>> /\ orow = 0 /\ mapping = EmptyDict /\ epc = "idle"
    /\ sheet_mapping = EmptyDict /\ sheet_name = None /\ sheet_key = None
    /\ vessel_name = None
    /\ ExtractIdle
    /\ SinkIdle

runVars == <<script, headerVars, entityVars, lookupVars, extractVars, sinkVars>>

\* parse_date ---------------------------------------------------------------

DateLeads == {<<>>, <<" ">>}
DayTexts == {<<"5">>, <<"0", "5">>, <<"3", "1">>, <<"2", "9">>, <<"0">>, <<"1", "2", "3">>}
MonthTexts == {<<"3">>, <<"0", "3">>, <<"2">>, <<"4">>, <<"1", "3">>, <<"0">>}
YearTexts == {<<"2", "4">>, <<"2", "3">>, <<"2", "0", "2", "4">>, <<"2", "0", "2", "3">>,
              <<"0", "0", "2", "4">>, <<"0", "0", "0", "0">>, <<"2", "4", "5">>, <<"2">>,
              <<"2", "0", "2", "4", "5">>}
DateSeparatorPairs == {<<"/", "/">>, <<"-", "-">>, <<".", ".">>, <<"/", "-">>}
DateTrails == {<<>>, <<"x">>, <<" ", "1", "0", ":", "3", "0">>}

\* the texts of a date cell
DateTexts ==
    {lead \o d \o <<sp[1]>> \o mo \o <<sp[2]>> \o y \o trail :
        lead \in DateLeads, d \in DayTexts, sp \in DateSeparatorPairs,
        mo \in MonthTexts, y \in YearTexts, trail \in DateTrails}

\* the values of a date cell
DateValues ==
    DateTexts
    \cup {None, <<>>, IntVal(5), <<"<float>", "1", ".", "5">>,
          <<"<datetime>", "2", "0", "2", "3", "-", "0", "1", "-", "0", "1">>,
          <<"2", "0", "1", "9", "-", "1", "3", "-", "4", "0">>,
          <<"n", "/", "a">>}

DateInit ==
    /\ script = "feedrate"
    /\ RunIdle
    /\ call_args \in [date_value : DateValues, zero_pad : BOOLEAN]
    /\ call_result = None
    /\ cpc = "call"

\* parsed_date = parse_date(date_value)
CallParseDate ==
    /\ cpc = "call"
    /\ call_result' = parse_date_on(call_args.date_value, call_args.zero_pad)
    /\ cpc' = "returned"
    /\ UNCHANGED <<call_args, runVars>>

DateNext == CallParseDate

SpecDate == DateInit /\ [][DateNext]_vars

AllDigits(s) == \A i \in DOMAIN s : IsDigit(s[i])

\* the positions <<i, j>> of the two separators when the text s is, from
\* its first to its last character, D sep M sep Y with D and M of one or two
\* digits and Y of two to four digits
DateForms(s) ==
    {ij \in (2..3) \X (4..6) :
        /\ ij[2] < Len(s)
        /\ s[ij[1]] \in DateSeparators /\ s[ij[2]] \in DateSeparators
        /\ AllDigits(SubSeq(s, 1, ij[1] - 1))
        /\ ij[2] - ij[1] - 1 \in 1..2
        /\ AllDigits(SubSeq(s, ij[1] + 1, ij[2] - 1))
        /\ Len(s) - ij[2] \in 2..4
        /\ AllDigits(SubSeq(s, ij[2] + 1, Len(s)))}

\* the ISO date of day D, month M and year Y (two digits: 20Y) of such a
\* text, or None when Y has three digits or the date is not in the calendar
IsoOfForm(s, ij, year_text) ==
    LET d == DigitsToInt(SubSeq(s, 1, ij[1] - 1))
        mo == DigitsToInt(SubSeq(s, ij[1] + 1, ij[2] - 1))
        yt == SubSeq(s, ij[2] + 1, Len(s))
        y == IF Len(yt) = 2 THEN 2000 + DigitsToInt(yt) ELSE DigitsToInt(yt)
    IN  IF /\ Len(yt) \in {2, 4} /\ y >= 1
           /\ mo \in 1..12 /\ d >= 1 /\ d <= DaysInMonth(y, mo)
        THEN year_text[y] \o <<"-">> \o TwoDigits(mo) \o <<"-">> \o TwoDigits(d)
        ELSE None

\* the year as YYYY
IsoYear == [y \in 0..9999 |-> FourDigits(y)]

\* C11: parse_date returns YYYY-MM-DD for a datetime; for a text that is
\* D sep M sep Y it returns the ISO date of day D and month M when that
\* date exists and None otherwise; for every other value it returns None.
C11_ParseDateWholeText ==
    cpc = "returned" =>
        LET v == call_args.date_value
            forms == DateForms(Str(v))
        IN  call_result =
               IF IsDatetime(v) THEN Tail(v)
               ELSE IF forms = {} THEN None
               ELSE IsoOfForm(Str(v), CHOOSE ij \in forms : TRUE, IsoYear)

\* the beginnings of the text that are D sep M sep Y with the longest year:
\* the year has four digits or is not followed by a digit
DatePrefixes(s) ==
    {n \in 1..Len(s) :
        /\ DateForms(SubSeq(s, 1, n)) # {}
        /\ LET j == (CHOOSE ij \in DateForms(SubSeq(s, 1, n)) : TRUE)[2]
           IN  n - j = 4 \/ n = Len(s) \/ ~IsDigit(s[n + 1])}

\* the year as the platform prints it
PrintedYear(zero_pad) == [y \in 0..9999 |-> IF zero_pad THEN FourDigits(y) ELSE IntToText(y)]

\* C11 (amended): parse_date never raises; it returns YYYY-MM-DD for a
\* datetime; for a text that begins with D sep M sep Y (whatever follows
\* the year, which is the longest run of two to four digits) it returns
\* the date of day D and month M, with the year printed as strftime prints
\* it, when that date exists and Y has two or four digits, and None
\* otherwise; for every other value it returns None.
C11_ParseDate ==
    cpc = "returned" =>
        LET v == call_args.date_value
            prefixes == DatePrefixes(Str(v))
        IN  /\ call_result \notin {ValueError, TypeError}
            /\ call_result =
                 IF IsDatetime(v) THEN Tail(v)
                 ELSE IF prefixes = {} THEN None
                 ELSE LET p == SubSeq(Str(v), 1, CHOOSE n \in prefixes : TRUE)
                      IN  IsoOfForm(p, CHOOSE ij \in DateForms(p) : TRUE,
                                    PrintedYear(call_args.zero_pad))

\* 05/03/24 followed by a time of day was parsed as 5 March 2024
C11_Witness ==
    /\ cpc = "returned"
    /\ call_args.date_value = <<"0", "5", "/", "0", "3", "/", "2", "4",
                                " ", "1", "0", ":", "3", "0">>
    /\ call_result = <<"2", "0", "2", "4", "-", "0", "3", "-", "0", "5">>

\* the text p, which is D sep M sep Y with its separators at ij, written
\* with "-" for both separators
Dashed(p, ij) == [i \in DOMAIN p |-> IF i \in {ij[1], ij[2]} THEN "-" ELSE p[i]]

\* C23: parse_date matches at the start of the text only and ignores what
\* follows the match: a text that begins with D sep1 M sep2 Y (Y the year
\* digits the pattern takes) gets the result of that beginning alone, which
\* is also the result of the same beginning written with any other
\* separators, so neither the characters after the year nor mixed
\* separators make the result None; a text that does not begin with such
\* a date, as every text with a character that is not a digit in front of
\* the day, gets None.
C23_PrefixOnly ==
    (cpc = "returned" /\ IsText(call_args.date_value)) =>
        LET s == Str(call_args.date_value)
            prefixes == DatePrefixes(s)
        IN  /\ prefixes # {} =>
                  LET p == SubSeq(s, 1, CHOOSE n \in prefixes : TRUE)
                      ij == CHOOSE ij \in DateForms(p) : TRUE
                  IN  /\ call_result = parse_date_on(p, call_args.zero_pad)
                      /\ call_result = parse_date_on(Dashed(p, ij), call_args.zero_pad)
            /\ prefixes = {} => call_result = None
            /\ (s # <<>> /\ ~IsDigit(s[1])) => call_result = None

\* 5/3-24x, with two different separators and a character after the year,
\* was parsed as 5 March 2024
C23_Witness ==
    /\ cpc = "returned"
    /\ call_args.date_value = <<"5", "/", "3", "-", "2", "4", "x">>
    /\ call_result = <<"2", "0", "2", "4", "-", "0", "3", "-", "0", "5">>

\* the numeric cleaning --------------------------------------------------------

\* NaN
NaN == <<"<NaN>">>

\* the float 0.0
Zero == <<"<float>", "0", ".", "0">>

\* the text is digits, or digits "." digits
IsDecimalText(t) ==
    /\ t # <<>> /\ IsDigit(t[1]) /\ IsDigit(t[Len(t)])
    /\ \A i \in DOMAIN t : IsDigit(t[i]) \/ t[i] = "."
    /\ Cardinality({i \in DOMAIN t : t[i] = "."}) <= 1

RECURSIVE AsciiStrip(_)
\* the text without the ASCII whitespace around it
AsciiStrip(s) ==
    IF s # <<>> /\ s[1] \in AsciiSpaceChars THEN AsciiStrip(Tail(s))
    ELSE IF s # <<>> /\ s[Len(s)] \in AsciiSpaceChars THEN AsciiStrip(SubSeq(s, 1, Len(s) - 1))
    ELSE s

\* the float a text is parsed to by pd.to_numeric(errors="coerce"): ASCII
\* whitespace around the number is skipped, a sign is allowed
FloatOfText(s) ==
    LET w == AsciiStrip(s)
        signed == w # <<>> /\ w[1] \in {"+", "-"}
        digits == IF signed THEN Tail(w) ELSE w
    IN  IF ~IsDecimalText(digits) THEN NaN
        ELSE <<"<float>">> \o (IF signed /\ w[1] = "-" THEN <<"-">> ELSE <<>>)
                 \o (IF \E i \in DOMAIN digits : digits[i] = "." THEN digits
                     ELSE digits \o <<".", "0">>)

\* pd.to_numeric(x, errors="coerce") of one value of a column that has a NaN
to_numeric(v) ==
    CASE IsNone(v) \/ v = NaN -> NaN
      [] IsInt(v) -> <<"<float>">> \o Tail(v) \o <<".", "0">>
      [] IsFloat(v) -> v
      [] IsDatetime(v) -> NaN
      [] OTHER -> FloatOfText(v)

\* .fillna(0)
fillna_0(v) == IF v = NaN THEN Zero ELSE v

numeric_columns_feedrate == {"ME_Load", "CylinderOilFeedrate", "ME_RH"}

numeric_columns_tbn == {"Fe_Magnet", "Fe_Corrosion", "Fe_Total", "Residual_TBN", "Unit_RH",
                        "TBN_Fed", "Fuel_Sulph", "ME_Load", "ME_RH"}

\* df[col] = pd.to_numeric(df[col], errors="coerce").fillna(0), for the
\* numeric columns of the feedrate/load script
CleanFeedrate(df) ==
    [i \in DOMAIN df |->
        [f \in DOMAIN df[i] |->
            IF f \in numeric_columns_feedrate THEN fillna_0(to_numeric(df[i][f]))
            ELSE df[i][f]]]

\* .astype(str).str.replace(r'\s+', '', regex=True)
StrNoSpace(v) == SelectSeq(Str(v), LAMBDA c : ~IsSpace(c))

Dash == <<"-">>

\* Series.replace('-', None) in a pandas release that takes the None for
\* "no value given" and fills from the row before (method='pad')
RECURSIVE PadDash(_, _)
PadDash(col, i) ==
    IF col[i] # Dash THEN col[i]
    ELSE IF i = 1 THEN Dash
    ELSE PadDash(col, i - 1)

\* Series.replace('-', None): the dash becomes None, or, where the release
\* of pandas pads, the value of the nearest row before that is not a dash
replace_dash(col, pads) ==
    [i \in DOMAIN col |->
        IF col[i] # Dash THEN col[i]
        ELSE IF pads THEN PadDash(col, i) ELSE None]

\* the cleaned column of the TBN/Fe script
CleanTbnColumn(col, pads) ==
    LET texts == [i \in DOMAIN col |-> StrNoSpace(col[i])]
        replaced == replace_dash(texts, pads)
    IN  [i \in DOMAIN col |-> to_numeric(replaced[i])]

\* the cleaning loop of the TBN/Fe script over the columns of df
CleanTbn(df, pads) ==
    [i \in DOMAIN df |->
        [f \in DOMAIN df[i] |->
            IF f \in numeric_columns_tbn
            THEN CleanTbnColumn([k \in DOMAIN df |-> df[k][f]], pads)[i]
            ELSE df[i][f]]]

\* the largest number of data rows of the sheet that is cleaned
MaxCleanRows == 2

T_12_5 == <<" ", "1", "2", ".", "5", " ">>
F_12_5 == <<"<float>", "1", "2", ".", "5">>
T_abc == <<"a", "b", "c">>
T_05_03_24 == <<"0", "5", "/", "0", "3", "/", "2", "4">>

\* the values of the cell in column B
CoerceCells == {None, <<>>, T_12_5, Dash, T_abc, IntVal(50)}

\* the resolved headers: every resolved column is column B
CoerceHeaders(s) ==
    IF s = "feedrate"
    THEN {EmptyDict, Assign(EmptyDict, T_Cylinder_oil_feedrate, 1),
          Assign(EmptyDict, T_ME_rh, 1), Assign(EmptyDict, T_ME, 1)}
    ELSE {Assign(EmptyDict, UnitTarget(T_Fe_magnetic, 1), 1),
          Assign(EmptyDict, T_Fuel_Sulphur_Content, 1),
          Assign(EmptyDict, T_TBN_of_blended_oil_fed_to_engine, 1),
          Assign(EmptyDict, T_ME_rh, 1)}

CoerceSheets == UNION {[1..n -> {<<T_05_03_24, c>> : c \in CoerceCells}] : n \in 1..MaxCleanRows}

CoerceInit ==
    /\ script \in {"feedrate", "tbn"}
    /\ RunIdle
    /\ \E hc \in CoerceHeaders(script) :
          call_args \in [sheet : CoerceSheets, header_columns : {hc}, pads : BOOLEAN]
    /\ call_result = None
    /\ cpc = "extract"

RECURSIVE SheetRows(_, _, _)
\* all_rows after process_xlsx of the one sheet
SheetRows(s, sheet, hc) ==
    IF sheet = <<>> THEN <<>>
    ELSE SheetRows(s, SubSeq(sheet, 1, Len(sheet) - 1), hc)
            \o [k \in DOMAIN RowRecords(s, sheet[Len(sheet)], hc, T_abc, T_abc) |->
                   WithVessel(RowRecords(s, sheet[Len(sheet)], hc, T_abc, T_abc)[k], T_abc)]

\* df = pd.DataFrame(all_rows)
CoerceExtract ==
    /\ cpc = "extract"
    /\ call_result' = SheetRows(script, call_args.sheet, call_args.header_columns)
    /\ cpc' = "clean"
    /\ UNCHANGED <<call_args, runVars>>

\* the cleaning of the numeric columns
CoerceClean ==
    /\ cpc = "clean"
    /\ call_result' = IF script = "feedrate" THEN CleanFeedrate(call_result)
                      ELSE CleanTbn(call_result, call_args.pads)
    /\ cpc' = "returned"
    /\ UNCHANGED <<call_args, runVars>>

CoerceNext == CoerceExtract \/ CoerceClean

SpecCoerce == CoerceInit /\ [][CoerceNext]_vars

\* the records before the cleaning
Extracted == SheetRows(script, call_args.sheet, call_args.header_columns)

\* the cell a numeric field of record i of the feedrate/load script is read
\* from (the sheet has one record per row), None when its column is unresolved
FeedrateInput(i, f) ==
    LET r == call_args.sheet[i]
        hc == call_args.header_columns
    IN  CASE f = "ME_Load" -> Cell(r, 1)
          [] f = "CylinderOilFeedrate" ->
                IF Resolved(hc, T_Cylinder_oil_feedrate) THEN Cell(r, 1) ELSE None
          [] f = "ME_RH" ->
                IF Resolved(hc, T_ME_rh) \/ Resolved(hc, T_ME) THEN Cell(r, 1) ELSE None

\* C12: after the cleaning, a zero-default field of the feedrate/load
\* dataset is 12.5 for " 12.5 " and 0 for "-", "abc", an empty cell and an
\* unresolved column, never null or NaN; a field of the TBN/Fe dataset is
\* 12.5 for " 12.5 " and null for "-", "abc" and a missing reading, so a
\* dash takes no value from another row and a missing reading is never 0.
C12_CoercionDefaults ==
    cpc = "returned" =>
        \A i \in DOMAIN call_result :
            IF script = "feedrate"
            THEN \A f \in numeric_columns_feedrate :
                    /\ call_result[i][f] \notin {None, NaN}
                    /\ FeedrateInput(i, f) = T_12_5 => call_result[i][f] = F_12_5
                    /\ FeedrateInput(i, f) \in {Dash, T_abc, <<>>, None} =>
                          call_result[i][f] = Zero
            ELSE \A f \in numeric_columns_tbn :
                    /\ Extracted[i][f] = T_12_5 => call_result[i][f] = F_12_5
                    /\ Extracted[i][f] \in {Dash, T_abc, None} => call_result[i][f] = NaN

\* normalize_string and string_similarity -----------------------------------

T_tm == <<"<tm>">>
T_aba == <<"a", "b", "a">>
T_bca == <<"b", "c", "a">>
T_tide == <<"t", "i", "d", "e">>
T_diet == <<"d", "i", "e", "t">>

\* the texts of a header cell or of a target header
HeaderTexts ==
    {<<>>, <<" ">>, T_tm, <<"F", "e", "<tm>">>, <<"<E-acute>">>, <<"<micro>">>,
     <<"<nbsp>", "M", "E", " ", " ", "R", "H">>, <<"m", "e", " ", "r", "h">>,
     <<"T", "B", "N", "-", "F", "e", "d">>, <<"M", "E", "_", "r", "h", ".">>,
     T_aba, T_bca, T_tide, T_diet}

TextInit ==
    /\ script = "feedrate"
    /\ RunIdle
    /\ call_args \in [str1 : HeaderTexts, str2 : HeaderTexts]
    /\ call_result = None
    /\ cpc = "call"

\* cell_value_str_normalized = normalize_string(cell_value_str)
CallNormalizeString ==
    /\ cpc = "call"
    /\ call_result' = normalize_string(call_args.str1)
    /\ cpc' = "normalized"
    /\ UNCHANGED <<call_args, runVars>>

\* str1_normalized = normalize_string(str1), on the text already normalized
CallNormalizeAgain ==
    /\ cpc = "normalized"
    /\ call_result' = normalize_string(call_result)
    /\ cpc' = "renormalized"
    /\ UNCHANGED <<call_args, runVars>>

\* string_similarity(str1, str2)
CallStringSimilarity ==
    /\ cpc = "call"
    /\ call_result' = string_similarity(call_args.str1, call_args.str2)
    /\ cpc' = "compared"
    /\ UNCHANGED <<call_args, runVars>>

TextNext == CallNormalizeString \/ CallNormalizeAgain \/ CallStringSimilarity

SpecText == TextInit /\ [][TextNext]_vars

\* lowercase, trimmed, single-spaced text of ASCII letters, digits, "_" and " "
IsNormalText(s) ==
    /\ \A i \in DOMAIN s : IsWord(s[i]) \/ s[i] = " "
    /\ Lower(s) = s
    /\ Strip(s) = s
    /\ \A i \in 1..(Len(s) - 1) : ~(s[i] = " " /\ s[i + 1] = " ")

\* C15: normalize_string returns a text for every text, and normalising its
\* result again changes nothing: the result is already lowercase, trimmed and
\* single-spaced, also when a compatibility character decomposed to letters.
C15_NormalizeIdempotent ==
    /\ cpc = "normalized" => IsNormalText(call_result)
    /\ cpc = "renormalized" => call_result = normalize_string(call_args.str1)

\* C16: string_similarity lies in [0, 1], is 1.0 of a non-empty text with
\* itself, and is the same with its arguments exchanged, and so is the
\* comparison with the threshold.
C16_SimilaritySymmetric ==
    cpc = "compared" =>
        LET swapped == string_similarity(call_args.str2, call_args.str1)
        IN  /\ 0 <= call_result[1] /\ call_result[1] <= call_result[2] /\ call_result[2] > 0
            /\ (call_args.str1 = call_args.str2 /\ call_args.str1 # <<>>)
                  => call_result[1] = call_result[2]
            /\ call_result[1] * swapped[2] = swapped[1] * call_result[2]
            /\ AtLeastThreshold(call_result) <=> AtLeastThreshold(swapped)


=============================================================================
